---------------------------- MODULE Spec2Model ----------------------------
(***************************************************************************)
(* ResilientMailer: the rate limiter, the circuit breaker and the email    *)
(* service's sendEmail, as state machines over an integer clock.  One      *)
(* clock unit stands for one configured interval; the configured numbers   *)
(* (limit, window, ...) are small stand-ins for the options of the         *)
(* constructors.                                                           *)
(***************************************************************************)
EXTENDS Integers, Sequences, FiniteSets, TLC

\* ------------------------------------------------------------ bounds
\* The clock runs from 0 to MaxTime.
MaxTime == 3
\* calculateDelay is called for attempts 1 to MaxAttempt, and Math.random()
\* returns one of 0/RandomSteps, 1/RandomSteps, ... below 1.
MaxAttempt == 10
RandomSteps == 10

\* ----------------------------------------------- configuration values
\* RateLimiter options.limit and options.window.
limit == 2
window == 2
\* CircuitBreaker options.failureThreshold and options.resetTimeout.
failureThreshold == 2
resetTimeout == 2
\* EmailService options.maxRetries and options.idempotencyTtl.
maxRetries == 2
idempotencyTtl == 2
\* EmailService options.baseDelay and options.maxDelay, in seconds.
baseDelay == 1
maxDelay == 8

Times == 0..MaxTime

\* The identifiers callers pass to the rate limiter; NoId is a call that
\* passes none (the parameter's default applies).
Identifiers == {"default", "alice"}
NoId == "undefined"
IdArgs == Identifiers \cup {NoId}

\* The providers, by their index in EmailService.providers.
Providers == {0, 1}
\* The sendEmail calls of a run.
Calls == {"c1", "c2"}
\* options.idempotencyKey when the caller gives none.
NoKey == <<>>
\* The requests callers send; from is optional.
Emails ==
    { [to |-> "a@x.io", subject |-> "s", body |-> "b", from |-> NoId],
      [to |-> "a@x.io", subject |-> "s", body |-> "b", from |-> "alice"] }
\* The malformed requests callers send: a value that is not an object, and
\* objects without to, subject or body (a field that is missing is ""), or
\* with a destination that is not an address.
NotAnObject == [typeof |-> "string"]
Malformed ==
    { NotAnObject,
      [to |-> "", subject |-> "s", body |-> "b", from |-> NoId],
      [to |-> "a@x.io", subject |-> "", body |-> "b", from |-> NoId],
      [to |-> "a@x.io", subject |-> "s", body |-> "", from |-> NoId],
      [to |-> "a.x.io", subject |-> "s", body |-> "b", from |-> NoId] }
Requests == Emails \cup Malformed
\* The options callers pass to sendEmail.
SendOptions == { [idempotencyKey |-> NoKey] }
\* The same, and options with an idempotency key of the caller's.
ExplicitKey == <<"k1">>
KeyOptions == SendOptions \cup { [idempotencyKey |-> ExplicitKey] }
\* The callers that use a circuit breaker directly.
Tasks == {"t1", "t2"}
\* nextAttempt before the breaker has ever opened.
Null == "null"
BreakerOpenError == <<"Circuit breaker is OPEN">>

VARIABLES
    circuitBreakers,\* EmailService.circuitBreakers: index -> CircuitBreaker
                    \* (state, failureCount, nextAttempt)
    tasks,          \* the direct callers of execute: idle, or waiting for
                    \* their operation (pc, breaker, role)
    cbLast,         \* ghost: the last event at a breaker: an execute call
                    \* let through (admit) or rejected with an error
                    \* (reject), or an operation that ended (success,
                    \* failure); flip changes with every event
    streak,         \* ghost: per breaker, the failed operations since the last
                    \* successful one (at most failureThreshold counted)
    currentProviderIndex,   \* EmailService.currentProviderIndex
    providersLength,\* EmailService.providers.length
    lastDelay,      \* what calculateDelay last returned, and for which attempt
                    \* and which value of Math.random()
    sentEmails,     \* EmailService.sentEmails: idempotency key -> record
    calls,          \* the sendEmail calls: where each stands (pc), its locals
                    \* (email, key, providerIndex, actual, attempt, lastError),
                    \* what it returned or threw (result, error), and ghosts:
                    \* tried, the execute calls it made and how each ended;
                    \* found, the record the cache held for its key when it
                    \* started; before, the calls that had ended by then;
                    \* affinity, currentProviderIndex when it started;
                    \* given, the idempotency key of its options;
                    \* startedAt and endedAt
    queue,          \* EmailQueue.queue: the identifiers of the items, in order
    items,          \* the queue item objects, by identifier (an item taken out
                    \* of the queue while its dispatch is in flight is still
                    \* held by processQueueItem)
    created,        \* how many items addEmail has created
    processing,     \* EmailQueue.processing
    stats,          \* EmailQueue.stats
    loops,          \* the startProcessing calls: idle (not called, or
                    \* returned), in a pass (awaiting the dispatches of
                    \* processQueue) or in the delay between two passes
                    \* (wait: the clock units left of the delay)
    now,            \* Date.now()
    requests,       \* RateLimiter.requests: identifier -> admission times
    tokens,         \* RateLimiter.tokens
    lastRefill,     \* RateLimiter.lastRefill
    rlLast,         \* ghost: the last rate limiter call and what it returned
                    \* (flip changes with every call)
    admitted,       \* ghost: per identifier, the times of the admissions since
                    \* its last reset that lie in the window ending now
    admittedAll     \* ghost: the same, reset or not (at most limit + 1 kept)

rlVars == <<requests, tokens, lastRefill, rlLast, admitted, admittedAll>>
cbVars == <<circuitBreakers, cbLast, streak>>
svcVars ==
    <<currentProviderIndex, providersLength, lastDelay, sentEmails, calls>>
queueVars == <<queue, items, created, processing, stats, loops>>
vars == <<now, rlVars, cbVars, tasks, svcVars, queueVars>>

\* ------------------------------------------------------- RateLimiter

\* The limiter object, as the methods see it.
RL == [requests |-> requests, tokens |-> tokens, lastRefill |-> lastRefill]

IdentOf_alwaysDefault(arg) == "default"

\* identifier = 'default' (the default value of the parameter).
IdentOf(arg) == IF arg = NoId THEN "default" ELSE arg

\* requestHistory.filter(time => time > windowStart)
recentRequests(requestHistory, windowStart) ==
    SelectSeq(requestHistory, LAMBDA time : time > windowStart)

\* refillTokens(now)
refillTokens(rl, t) ==
    IF t - rl.lastRefill >= window
    THEN [rl EXCEPT !.tokens = limit, !.lastRefill = t]
    ELSE rl

isAllowed_offByOne(rl, identifier, t) ==
    LET r0 == refillTokens(rl, t)
        recent == recentRequests(r0.requests[identifier], t - window)
    IN  IF Len(recent) > limit
        THEN [ret |-> FALSE, rl |-> r0]
        ELSE [ret |-> TRUE,
              rl |-> [r0 EXCEPT !.requests[identifier] = Append(recent, t)]]

isAllowed_sharedBucket(rl, identifier, t) ==
    LET r0 == refillTokens(rl, t)
        recent == recentRequests(r0.requests["default"], t - window)
    IN  IF Len(recent) >= limit
        THEN [ret |-> FALSE, rl |-> r0]
        ELSE [ret |-> TRUE,
              rl |-> [r0 EXCEPT !.requests["default"] = Append(recent, t)]]

\* isAllowed(identifier): the value returned and the limiter afterwards.
\* An identifier without an entry has the history [].
isAllowed(rl, identifier, t) ==
    LET r0 == refillTokens(rl, t)
        recent == recentRequests(r0.requests[identifier], t - window)
    IN  IF Len(recent) >= limit
        THEN [ret |-> FALSE, rl |-> r0]
        ELSE [ret |-> TRUE,
              rl |-> [r0 EXCEPT !.requests[identifier] = Append(recent, t)]]

getRemaining_countsExpired(rl, identifier, t) ==
    LET n == limit - Len(rl.requests[identifier])
    IN  IF n > 0 THEN n ELSE 0

\* getRemaining(identifier): Math.max(0, limit - recentRequests.length)
getRemaining(rl, identifier, t) ==
    LET n == limit - Len(recentRequests(rl.requests[identifier], t - window))
    IN  IF n > 0 THEN n ELSE 0

\* reset(identifier): requests.delete(identifier)
reset(rl, identifier) == [rl EXCEPT !.requests[identifier] = <<>>]

\* Ghost bookkeeping: the admission times inside the window (t - window, t].
InWindow(times, t) == SelectSeq(times, LAMBDA time : time > t - window)

\* Ghost bookkeeping of one admission.
Tally(adm, identifier, t) ==
    [adm EXCEPT ![identifier] = IF Len(@) > limit THEN @ ELSE Append(@, t)]

\* The limiter after a call that left it as rl.
RlAfter(rl) ==
    /\ requests' = rl.requests
    /\ tokens' = rl.tokens
    /\ lastRefill' = rl.lastRefill

\* The limiter and its ghosts after the call isAllowed(arg) with outcome r.
RlAfterIsAllowed(arg, r) ==
    /\ RlAfter(r.rl)
    /\ rlLast' = [op |-> "isAllowed", arg |-> arg, ret |-> r.ret,
                  flip |-> 1 - rlLast.flip]
    /\ admitted' = IF r.ret THEN Tally(admitted, IdentOf(arg), now) ELSE admitted
    /\ admittedAll' = IF r.ret THEN Tally(admittedAll, IdentOf(arg), now)
                      ELSE admittedAll

\* A caller calls isAllowed(arg).
RlIsAllowed(arg) ==
    LET id == IdentOf(arg)
        r  == isAllowed(RL, id, now)
    IN  /\ RlAfterIsAllowed(arg, r)
        /\ UNCHANGED <<now, cbVars, tasks, svcVars, queueVars>>

\* A caller calls getRemaining(arg).
RlGetRemaining(arg) ==
    /\ rlLast' = [op |-> "getRemaining", arg |-> arg,
                  ret |-> getRemaining(RL, IdentOf(arg), now),
                  flip |-> 1 - rlLast.flip]
    /\ UNCHANGED <<now, requests, tokens, lastRefill, admitted, admittedAll,
                   cbVars, tasks, svcVars, queueVars>>

\* A caller calls reset(arg).
RlReset(arg) ==
    LET id == IdentOf(arg)
        r  == reset(RL, id)
    IN  /\ RlAfter(r)
        /\ rlLast' = [op |-> "reset", arg |-> arg, ret |-> TRUE,
                      flip |-> 1 - rlLast.flip]
        /\ admitted' = [admitted EXCEPT ![id] = <<>>]
        /\ UNCHANGED <<now, admittedAll, cbVars, tasks, svcVars, queueVars>>

\* Time passes.
Tick ==
    /\ now < MaxTime
    /\ now' = now + 1
    /\ admitted' = [i \in Identifiers |-> InWindow(admitted[i], now')]
    /\ admittedAll' = [i \in Identifiers |-> InWindow(admittedAll[i], now')]
    /\ loops' = [l \in DOMAIN loops |->
                    [loops[l] EXCEPT !.wait = IF @ > 0 THEN @ - 1 ELSE 0]]
    /\ UNCHANGED <<requests, tokens, lastRefill, rlLast, cbVars, tasks, svcVars,
                   queue, items, created, processing, stats>>


\* ---------------------------------------------------- CircuitBreaker

\* new CircuitBreaker(): CLOSED, no failures, never opened.
NewBreaker == [state |-> "CLOSED", failureCount |-> 0, nextAttempt |-> Null]

cbEnter_ignoresCooldown(cb, t) ==
    IF cb.state = "CLOSED"
    THEN [admit |-> TRUE, role |-> "normal", cb |-> cb]
    ELSE IF cb.state = "OPEN"
    THEN [admit |-> TRUE, role |-> "probe", cb |-> [cb EXCEPT !.state = "HALF_OPEN"]]
    ELSE [admit |-> FALSE, role |-> "none", cb |-> cb]

cbEnter_halfOpenAdmits(cb, t) ==
    IF cb.state = "CLOSED"
    THEN [admit |-> TRUE, role |-> "normal", cb |-> cb]
    ELSE IF cb.state = "HALF_OPEN" \/ t >= cb.nextAttempt
    THEN [admit |-> TRUE, role |-> "probe", cb |-> [cb EXCEPT !.state = "HALF_OPEN"]]
    ELSE [admit |-> FALSE, role |-> "none", cb |-> cb]

cbEnter_lateProbe(cb, t) ==
    IF cb.state = "CLOSED"
    THEN [admit |-> TRUE, role |-> "normal", cb |-> cb]
    ELSE IF cb.state = "OPEN" /\ t > cb.nextAttempt + 1
    THEN [admit |-> TRUE, role |-> "probe", cb |-> [cb EXCEPT !.state = "HALF_OPEN"]]
    ELSE [admit |-> FALSE, role |-> "none", cb |-> cb]

\* execute(operation), up to the call of the operation: whether the breaker
\* lets the call through, in which role, and the breaker afterwards.
\*   CLOSED: the operation runs.
\*   OPEN: before nextAttempt the call fails with the breaker-open error; at
\*     or after it the breaker becomes HALF_OPEN and the call is the probe.
\*   HALF_OPEN: a probe is in flight; the call is rejected as if still OPEN.
cbEnter(cb, t) ==
    IF cb.state = "CLOSED"
    THEN [admit |-> TRUE, role |-> "normal", cb |-> cb]
    ELSE IF cb.state = "OPEN" /\ t >= cb.nextAttempt
    THEN [admit |-> TRUE, role |-> "probe", cb |-> [cb EXCEPT !.state = "HALF_OPEN"]]
    ELSE [admit |-> FALSE, role |-> "none", cb |-> cb]

cbOnSuccess_keepsCount(cb, role, t) ==
    IF role = "probe"
    THEN [cb EXCEPT !.state = "CLOSED", !.failureCount = 0]
    ELSE cb

\* execute(operation), the operation has succeeded.
\*   probe: CLOSED, failureCount 0.  CLOSED: failureCount 0.
\*   An operation let through while CLOSED that ends when the breaker is no
\*   longer CLOSED changes nothing.
cbOnSuccess(cb, role, t) ==
    IF role = "probe"
    THEN [cb EXCEPT !.state = "CLOSED", !.failureCount = 0]
    ELSE IF cb.state = "CLOSED"
    THEN [cb EXCEPT !.failureCount = 0]
    ELSE cb

cbOnFailure_staleDeadline(cb, role, t) ==
    IF role = "probe"
    THEN [cb EXCEPT !.state = "OPEN"]
    ELSE IF cb.state = "CLOSED"
    THEN IF cb.failureCount + 1 >= failureThreshold
         THEN [cb EXCEPT !.failureCount = @ + 1, !.state = "OPEN",
                         !.nextAttempt = t + resetTimeout]
         ELSE [cb EXCEPT !.failureCount = @ + 1]
    ELSE cb

\* execute(operation), the operation has failed.
\*   probe: OPEN again, nextAttempt = now + resetTimeout.
\*   CLOSED: failureCount + 1, and OPEN with nextAttempt = now + resetTimeout
\*   once failureCount reaches failureThreshold.
cbOnFailure(cb, role, t) ==
    IF role = "probe"
    THEN [cb EXCEPT !.state = "OPEN", !.nextAttempt = t + resetTimeout]
    ELSE IF cb.state = "CLOSED"
    THEN IF cb.failureCount + 1 >= failureThreshold
         THEN [cb EXCEPT !.failureCount = @ + 1, !.state = "OPEN",
                         !.nextAttempt = t + resetTimeout]
         ELSE [cb EXCEPT !.failureCount = @ + 1]
    ELSE cb

\* Ghost bookkeeping of an event at breaker p.
CbEvent(op, p, role) ==
    /\ cbLast' = [op |-> op, p |-> p, role |-> role, flip |-> 1 - cbLast.flip,
                  error |-> IF op = "reject" THEN BreakerOpenError ELSE <<>>]
    /\ streak' = [streak EXCEPT ![p] =
                     IF op = "success" THEN 0
                     ELSE IF op = "failure" /\ @ < failureThreshold THEN @ + 1
                     ELSE @]

\* Task tk calls circuitBreakers[p].execute(operation).
CbExecute(tk, p) ==
    LET e == cbEnter(circuitBreakers[p], now)
    IN  /\ tasks[tk].pc = "idle"
        /\ circuitBreakers' = [circuitBreakers EXCEPT ![p] = e.cb]
        /\ IF e.admit
           THEN /\ tasks' = [tasks EXCEPT ![tk] = [pc |-> "running", p |-> p,
                                                   role |-> e.role]]
                /\ CbEvent("admit", p, e.role)
           ELSE /\ tasks' = tasks
                /\ CbEvent("reject", p, "none")
        /\ UNCHANGED <<now, rlVars, svcVars, queueVars>>

\* The operation of task tk ends, successfully or not.
CbSettle(tk, ok) ==
    LET p == tasks[tk].p
        role == tasks[tk].role
    IN  /\ tasks[tk].pc = "running"
        /\ circuitBreakers' = [circuitBreakers EXCEPT ![p] =
               IF ok THEN cbOnSuccess(@, role, now) ELSE cbOnFailure(@, role, now)]
        /\ tasks' = [tasks EXCEPT ![tk] = [pc |-> "idle", p |-> p, role |-> "none"]]
        /\ CbEvent(IF ok THEN "success" ELSE "failure", p, role)
        /\ UNCHANGED <<now, rlVars, svcVars, queueVars>>

CbInit ==
    /\ circuitBreakers = [p \in Providers |-> NewBreaker]
    /\ tasks = [tk \in Tasks |-> [pc |-> "idle", p |-> 0, role |-> "none"]]
    /\ cbLast = [op |-> "none", p |-> 0, role |-> "none", flip |-> 0,
                 error |-> <<>>]
    /\ streak = [p \in Providers |-> 0]


\* ------------------------------------------------------ EmailService

\* this.providers.length
N == providersLength

\* MockEmailProvider.name of the provider at an index.
ProviderName(p) == IF p = 0 THEN "Provider-A" ELSE "Provider-B"

\* The addresses /^[^\s@]+@[^\s@]+\.[^\s@]+$/ accepts, among those used.
WellFormed == {"a@x.io"}

\* No result, no record in the cache.
NoRecord == [success |-> FALSE]
\* No error.
NoError == <<>>
\* No email yet.
NoEmail == [to |-> ""]

validateEmail_skipsAddressCheck(email) ==
    IF "typeof" \in DOMAIN email THEN <<"Email must be an object">>
    ELSE IF email.to = "" THEN <<"Email to is required">>
    ELSE IF email.subject = "" THEN <<"Email subject is required">>
    ELSE IF email.body = "" THEN <<"Email body is required">>
    ELSE NoError

\* validateEmail(email): the message of the error thrown, or NoError.
\* A field that is missing or empty is "".
validateEmail(email) ==
    IF "typeof" \in DOMAIN email THEN <<"Email must be an object">>
    ELSE IF email.to = "" THEN <<"Email to is required">>
    ELSE IF email.subject = "" THEN <<"Email subject is required">>
    ELSE IF email.body = "" THEN <<"Email body is required">>
    ELSE IF email.to \notin WellFormed THEN <<"Invalid email address format">>
    ELSE NoError

\* generateIdempotencyKey(email): the digest of the JSON text of to, subject,
\* body and from; two emails have the same key exactly when these agree.
generateIdempotencyKey(email) ==
    <<"sha256", email.to, email.subject, email.body, email.from>>

idempotencyKeyOf_alwaysFingerprint(email, options) ==
    generateIdempotencyKey(email)

\* sendEmail: options.idempotencyKey || this.generateIdempotencyKey(email)
idempotencyKeyOf(email, options) ==
    IF options.idempotencyKey # NoKey THEN options.idempotencyKey
    ELSE generateIdempotencyKey(email)

Keys ==
    {generateIdempotencyKey(e) : e \in Requests \ {NotAnObject}}
    \cup {ExplicitKey}

isDuplicate_expiresEarly(sent, idempotencyKey, t) ==
    IF sent[idempotencyKey] = NoRecord
    THEN [ret |-> FALSE, sentEmails |-> sent]
    ELSE IF t - sent[idempotencyKey].timestamp.ms >= idempotencyTtl
    THEN [ret |-> FALSE, sentEmails |-> [sent EXCEPT ![idempotencyKey] = NoRecord]]
    ELSE [ret |-> TRUE, sentEmails |-> sent]

isDuplicate_keepsExpired(sent, idempotencyKey, t) ==
    IF sent[idempotencyKey] = NoRecord
    THEN [ret |-> FALSE, sentEmails |-> sent]
    ELSE IF t - sent[idempotencyKey].timestamp.ms > idempotencyTtl
    THEN [ret |-> FALSE, sentEmails |-> sent]
    ELSE [ret |-> TRUE, sentEmails |-> sent]

\* isDuplicate(idempotencyKey): the value returned and the cache afterwards.
isDuplicate(sent, idempotencyKey, t) ==
    IF sent[idempotencyKey] = NoRecord
    THEN [ret |-> FALSE, sentEmails |-> sent]
    ELSE IF t - sent[idempotencyKey].timestamp.ms > idempotencyTtl
    THEN [ret |-> FALSE, sentEmails |-> [sent EXCEPT ![idempotencyKey] = NoRecord]]
    ELSE [ret |-> TRUE, sentEmails |-> sent]

\* trackSentEmail(idempotencyKey, result): { ...result, timestamp: Date.now() }
trackSentEmail(sent, idempotencyKey, result, t) ==
    [sent EXCEPT ![idempotencyKey] = [result EXCEPT !.timestamp = [type |-> "number", ms |-> t]]]

\* cleanup(): delete the records older than idempotencyTtl.
cleanup(sent, t) ==
    [k \in DOMAIN sent |->
        IF sent[k] # NoRecord /\ t - sent[k].timestamp.ms > idempotencyTtl
        THEN NoRecord ELSE sent[k]]

\* MockEmailProvider.sendEmail, successful: the result.  Its timestamp is the
\* ISO string of the time, the timestamp of a cache record is a number.  generateMessageId
\* draws a UUID; the identifier of the delivery made for call c stands for it.
ProviderResult(p, c, email, t) ==
    [success |-> TRUE,
     messageId |-> <<ProviderName(p), c>>,
     provider |-> ProviderName(p),
     timestamp |-> [type |-> "string", ms |-> t],
     email |-> [to |-> email.to, subject |-> email.subject]]

\* MockEmailProvider.sendEmail, failed: the error message.
ProviderError(p) ==
    <<ProviderName(p), " provider failed: Service temporarily unavailable">>

\* The error thrown when every provider has failed.
AllProvidersFailed(lastError) ==
    <<"Failed to send email after trying all providers: ">> \o lastError

RateLimitExceeded == <<"Rate limit exceeded">>

executeSend_eagerSend(cb, t) ==
    LET e == cbEnter(cb, t)
    IN  [admit |-> e.admit, role |-> e.role, cb |-> e.cb, invoked |-> TRUE]

\* sendWithRetry: circuitBreaker.execute(async () => provider.sendEmail(email)),
\* up to the wait for the provider.  invoked: provider.sendEmail was called.
executeSend(cb, t) ==
    LET e == cbEnter(cb, t)
    IN  [admit |-> e.admit, role |-> e.role, cb |-> e.cb, invoked |-> e.admit]

NewCall ==
    [pc |-> "idle", email |-> NoEmail, key |-> NoKey, providerIndex |-> 0,
     actual |-> 0, attempt |-> 0, role |-> "none", result |-> NoRecord,
     error |-> NoError, lastError |-> NoError, tried |-> <<>>,
     found |-> NoRecord, before |-> {}, startedAt |-> 0, endedAt |-> 0,
     affinity |-> 0, given |-> NoKey]

\* The call has returned or thrown: its locals are gone.
Ended(call, pc, result, error, t) ==
    [call EXCEPT !.pc = pc, !.result = result, !.error = error,
                 !.providerIndex = 0, !.actual = 0, !.attempt = 0,
                 !.role = "none", !.lastError = NoError, !.endedAt = t]

RECURSIVE attemptSend(_, _, _, _)
RECURSIVE onAttemptError(_, _, _, _, _)
RECURSIVE tryProvider(_, _, _, _)

attemptSend_rejectionAborts(cbs, call, cpi, t) ==
    LET p == call.actual
        e == executeSend(cbs[p], t)
        cbs1 == [cbs EXCEPT ![p] = e.cb]
    IN  IF e.admit
        THEN [cbs |-> cbs1,
              call |-> [call EXCEPT !.pc = "sending", !.role = e.role,
                                    !.tried = Append(@, <<p, "sent">>)]]
        ELSE [cbs |-> cbs1,
              call |-> Ended([call EXCEPT !.tried = Append(@, <<p, "rejected">>)],
                             "failed", NoRecord,
                             AllProvidersFailed(BreakerOpenError), t)]

\* sendWithRetry, one pass of the loop: execute is called at the provider of
\* this iteration.  Gives the breakers and the call afterwards.
attemptSend(cbs, call, cpi, t) ==
    LET p == call.actual
        e == executeSend(cbs[p], t)
        cbs1 == [cbs EXCEPT ![p] = e.cb]
    IN  IF e.admit
        THEN [cbs |-> cbs1,
              call |-> [call EXCEPT !.pc = "sending", !.role = e.role,
                                    !.tried = Append(@, <<p, "sent">>)]]
        ELSE onAttemptError(cbs1,
                 [call EXCEPT !.tried = Append(@,
                     <<p, IF e.invoked THEN "sent" ELSE "rejected">>)],
                 BreakerOpenError, cpi, t)

\* sendWithRetry, the catch block, and sendEmail's catch block after it: wait
\* and retry, or give the provider up and go on to the next one, or throw.
onAttemptError(cbs, call, error, cpi, t) ==
    IF call.attempt < maxRetries
    THEN [cbs |-> cbs, call |-> [call EXCEPT !.pc = "backoff", !.role = "none"]]
    ELSE IF call.providerIndex + 1 < N
    THEN tryProvider(cbs, [call EXCEPT !.providerIndex = @ + 1,
                                       !.lastError = error, !.role = "none"],
                     cpi, t)
    ELSE [cbs |-> cbs,
          call |-> Ended(call, "failed", NoRecord, AllProvidersFailed(error), t)]

tryProvider_ignoresAffinity(cbs, call, cpi, t) ==
    attemptSend(cbs,
        [call EXCEPT !.actual = call.providerIndex % N, !.attempt = 1],
        cpi, t)

\* sendEmail, one pass of the loop over the providers: the provider is
\* providers[(currentProviderIndex + providerIndex) % providers.length].
tryProvider(cbs, call, cpi, t) ==
    attemptSend(cbs,
        [call EXCEPT !.actual = (cpi + call.providerIndex) % N, !.attempt = 1],
        cpi, t)

\* The message of the TypeError that reading lastError.message throws when
\* lastError is undefined.
UndefinedLastError ==
    <<"Cannot read properties of undefined (reading 'message')">>

\* sendEmail from the loop over the providers on: with no provider the loop
\* body never runs and lastError is still undefined after it.
providerLoop(cbs, call, cpi, t) ==
    IF 0 < N
    THEN tryProvider(cbs, [call EXCEPT !.providerIndex = 0], cpi, t)
    ELSE [cbs |-> cbs,
          call |-> Ended(call, "failed", NoRecord, UndefinedLastError, t)]

SendEmail_admitsFirst(c, email, options) ==
    LET invalid == validateEmail(email)
        key == idempotencyKeyOf(email, options)
        dup == isDuplicate(sentEmails, key, now)
        arg == IF email.from = "" THEN NoId ELSE email.from
        adm == isAllowed(RL, IdentOf(arg), now)
        call0 == [calls[c] EXCEPT
                     !.email = email, !.startedAt = now,
                     !.affinity = currentProviderIndex,
                     !.given = options.idempotencyKey,
                     !.before = {d \in Calls : calls[d].pc \in {"done", "failed"}}]
        call1 == [call0 EXCEPT !.key = key, !.found = sentEmails[key]]
        go == providerLoop(circuitBreakers, call1, currentProviderIndex, now)
    IN  /\ calls[c].pc = "idle"
        /\ IF invalid # NoError
           THEN /\ calls' = [calls EXCEPT ![c] = Ended(call0, "failed", NoRecord, invalid, now)]
                /\ UNCHANGED <<sentEmails, requests, tokens, lastRefill,
                               circuitBreakers>>
           ELSE IF ~adm.ret
           THEN /\ calls' = [calls EXCEPT ![c] =
                                Ended(call1, "failed", NoRecord, RateLimitExceeded, now)]
                /\ RlAfter(adm.rl)
                /\ UNCHANGED <<sentEmails, circuitBreakers>>
           ELSE IF dup.ret
           THEN /\ calls' = [calls EXCEPT ![c] =
                                Ended(call1, "done", sentEmails[key], NoError, now)]
                /\ sentEmails' = dup.sentEmails
                /\ RlAfter(adm.rl)
                /\ UNCHANGED circuitBreakers
           ELSE /\ calls' = [calls EXCEPT ![c] = go.call]
                /\ circuitBreakers' = go.cbs
                /\ sentEmails' = dup.sentEmails
                /\ RlAfter(adm.rl)
        /\ UNCHANGED <<now, currentProviderIndex, cbLast, streak, tasks,
                       rlLast, admitted, admittedAll, providersLength,
                       lastDelay,
                       queueVars>>

SendEmail_recordsNoAdmission(c, email, options) ==
    LET invalid == validateEmail(email)
        key == idempotencyKeyOf(email, options)
        dup == isDuplicate(sentEmails, key, now)
        arg == IF email.from = "" THEN NoId ELSE email.from
        adm == isAllowed(RL, IdentOf(arg), now)
        call0 == [calls[c] EXCEPT
                     !.email = email, !.startedAt = now,
                     !.affinity = currentProviderIndex,
                     !.given = options.idempotencyKey,
                     !.before = {d \in Calls : calls[d].pc \in {"done", "failed"}}]
        call1 == [call0 EXCEPT !.key = key, !.found = sentEmails[key]]
        go == providerLoop(circuitBreakers, call1, currentProviderIndex, now)
    IN  /\ calls[c].pc = "idle"
        /\ IF invalid # NoError
           THEN /\ calls' = [calls EXCEPT ![c] = Ended(call0, "failed", NoRecord, invalid, now)]
                /\ UNCHANGED <<sentEmails, requests, tokens, lastRefill,
                               circuitBreakers>>
           ELSE IF dup.ret
           THEN /\ calls' = [calls EXCEPT ![c] =
                                Ended(call1, "done", sentEmails[key], NoError, now)]
                /\ sentEmails' = dup.sentEmails
                /\ UNCHANGED <<requests, tokens, lastRefill, circuitBreakers>>
           ELSE IF ~adm.ret
           THEN /\ calls' = [calls EXCEPT ![c] =
                                Ended(call1, "failed", NoRecord, RateLimitExceeded, now)]
                /\ sentEmails' = dup.sentEmails
                /\ RlAfter(adm.rl)
                /\ UNCHANGED circuitBreakers
           ELSE /\ calls' = [calls EXCEPT ![c] = go.call]
                /\ circuitBreakers' = go.cbs
                /\ sentEmails' = dup.sentEmails
                /\ RlAfter(refillTokens(RL, now))
        /\ UNCHANGED <<now, currentProviderIndex, cbLast, streak, tasks,
                       rlLast, admitted, admittedAll, providersLength,
                       lastDelay,
                       queueVars>>

\* sendEmail(email, options) is called, and runs up to its first wait.
SendEmail(c, email, options) ==
    LET invalid == validateEmail(email)
        key == idempotencyKeyOf(email, options)
        dup == isDuplicate(sentEmails, key, now)
        arg == IF email.from = "" THEN NoId ELSE email.from
        adm == isAllowed(RL, IdentOf(arg), now)
        call0 == [calls[c] EXCEPT
                     !.email = email, !.startedAt = now,
                     !.affinity = currentProviderIndex,
                     !.given = options.idempotencyKey,
                     !.before = {d \in Calls : calls[d].pc \in {"done", "failed"}}]
        call1 == [call0 EXCEPT !.key = key, !.found = sentEmails[key]]
        go == providerLoop(circuitBreakers, call1, currentProviderIndex, now)
    IN  /\ calls[c].pc = "idle"
        /\ IF invalid # NoError
           THEN /\ calls' = [calls EXCEPT ![c] = Ended(call0, "failed", NoRecord, invalid, now)]
                /\ UNCHANGED <<sentEmails, requests, tokens, lastRefill,
                               circuitBreakers>>
           ELSE IF dup.ret
           THEN /\ calls' = [calls EXCEPT ![c] =
                                Ended(call1, "done", sentEmails[key], NoError, now)]
                /\ sentEmails' = dup.sentEmails
                /\ UNCHANGED <<requests, tokens, lastRefill, circuitBreakers>>
           ELSE IF ~adm.ret
           THEN /\ calls' = [calls EXCEPT ![c] =
                                Ended(call1, "failed", NoRecord, RateLimitExceeded, now)]
                /\ sentEmails' = dup.sentEmails
                /\ RlAfter(adm.rl)
                /\ UNCHANGED circuitBreakers
           ELSE /\ calls' = [calls EXCEPT ![c] = go.call]
                /\ circuitBreakers' = go.cbs
                /\ sentEmails' = dup.sentEmails
                /\ RlAfter(adm.rl)
        /\ UNCHANGED <<now, currentProviderIndex, cbLast, streak, tasks,
                       rlLast, admitted, admittedAll, providersLength,
                       lastDelay,
                       queueVars>>

Settle_rotatesOnFailure(c, ok) ==
    LET call == calls[c]
        p == call.actual
        result == ProviderResult(p, c, call.email, now)
        cbsFail == [circuitBreakers EXCEPT ![p] = cbOnFailure(@, call.role, now)]
        go == onAttemptError(cbsFail, call, ProviderError(p),
                             currentProviderIndex, now)
    IN  /\ call.pc = "sending"
        /\ IF ok
           THEN /\ circuitBreakers' = [circuitBreakers EXCEPT ![p] =
                                          cbOnSuccess(@, call.role, now)]
                /\ currentProviderIndex' = p
                /\ sentEmails' = trackSentEmail(sentEmails, call.key, result, now)
                /\ calls' = [calls EXCEPT ![c] = Ended(call, "done", result, NoError, now)]
           ELSE /\ circuitBreakers' = go.cbs
                /\ calls' = [calls EXCEPT ![c] = go.call]
                /\ currentProviderIndex' = (p + 1) % N
                /\ UNCHANGED sentEmails
        /\ UNCHANGED <<now, rlVars, cbLast, streak, tasks, providersLength,
                       lastDelay,
                       queueVars>>

Settle_recordsFailure(c, ok) ==
    LET call == calls[c]
        p == call.actual
        result == ProviderResult(p, c, call.email, now)
        cbsFail == [circuitBreakers EXCEPT ![p] = cbOnFailure(@, call.role, now)]
        go == onAttemptError(cbsFail, call, ProviderError(p),
                             currentProviderIndex, now)
    IN  /\ call.pc = "sending"
        /\ IF ok
           THEN /\ circuitBreakers' = [circuitBreakers EXCEPT ![p] =
                                          cbOnSuccess(@, call.role, now)]
                /\ currentProviderIndex' = p
                /\ sentEmails' = trackSentEmail(sentEmails, call.key, result, now)
                /\ calls' = [calls EXCEPT ![c] = Ended(call, "done", result, NoError, now)]
           ELSE /\ circuitBreakers' = go.cbs
                /\ calls' = [calls EXCEPT ![c] = go.call]
                /\ sentEmails' = trackSentEmail(sentEmails, call.key, result, now)
                /\ UNCHANGED currentProviderIndex
        /\ UNCHANGED <<now, rlVars, cbLast, streak, tasks, providersLength,
                       lastDelay,
                       queueVars>>

\* The provider call of c ends, successfully or not, and sendEmail runs on.
Settle(c, ok) ==
    LET call == calls[c]
        p == call.actual
        result == ProviderResult(p, c, call.email, now)
        cbsFail == [circuitBreakers EXCEPT ![p] = cbOnFailure(@, call.role, now)]
        go == onAttemptError(cbsFail, call, ProviderError(p),
                             currentProviderIndex, now)
    IN  /\ call.pc = "sending"
        /\ IF ok
           THEN /\ circuitBreakers' = [circuitBreakers EXCEPT ![p] =
                                          cbOnSuccess(@, call.role, now)]
                /\ currentProviderIndex' = p
                /\ sentEmails' = trackSentEmail(sentEmails, call.key, result, now)
                /\ calls' = [calls EXCEPT ![c] = Ended(call, "done", result, NoError, now)]
           ELSE /\ circuitBreakers' = go.cbs
                /\ calls' = [calls EXCEPT ![c] = go.call]
                /\ UNCHANGED <<currentProviderIndex, sentEmails>>
        /\ UNCHANGED <<now, rlVars, cbLast, streak, tasks, providersLength,
                       lastDelay,
                       queueVars>>

\* The backoff delay of c is over: the next attempt at the same provider.
Retry(c) ==
    LET go == attemptSend(circuitBreakers,
                          [calls[c] EXCEPT !.attempt = @ + 1],
                          currentProviderIndex, now)
    IN  /\ calls[c].pc = "backoff"
        /\ circuitBreakers' = go.cbs
        /\ calls' = [calls EXCEPT ![c] = go.call]
        /\ UNCHANGED <<now, rlVars, cbLast, streak, tasks,
                       currentProviderIndex, sentEmails, providersLength,
                       lastDelay,
                       queueVars>>

\* Delays are counted in units of 1 / DelayScale of a second, in which the
\* jitter of every value of Math.random() is a whole number.
DelayScale == 10 * RandomSteps
Randoms == 0..(RandomSteps - 1)

Min(a, b) == IF a < b THEN a ELSE b

calculateDelay_jitterAfterCap(attempt, random) ==
    LET exponentialDelay == baseDelay * 2 ^ (attempt - 1) * DelayScale
        jitter == random * (baseDelay * 2 ^ (attempt - 1))
    IN  Min(exponentialDelay, maxDelay * DelayScale) + jitter

\* calculateDelay(attempt), where Math.random() returns random / RandomSteps:
\* the jitter, random / RandomSteps * 0.1 * exponentialDelay, is
\* random * baseDelay * 2^(attempt - 1) units.
calculateDelay(attempt, random) ==
    LET exponentialDelay == baseDelay * 2 ^ (attempt - 1) * DelayScale
        jitter == random * (baseDelay * 2 ^ (attempt - 1))
    IN  Min(exponentialDelay + jitter, maxDelay * DelayScale)

\* No call of calculateDelay yet.
NoDelay == [attempt |-> 0, random |-> 0, delay |-> 0]

\* A call of calculateDelay(attempt).
CalculateDelay(attempt, random) ==
    /\ lastDelay' = [attempt |-> attempt, random |-> random,
                     delay |-> calculateDelay(attempt, random)]
    /\ UNCHANGED <<now, rlVars, cbVars, tasks, currentProviderIndex,
                   providersLength, sentEmails, calls, queueVars>>

\* How the providers answer, by index: a provider that always fails
\* (failureRate 1, or setHealth(false)) and one that always succeeds.
FallbackProviders == [p \in Providers |-> IF p = 0 THEN "fails" ELSE "succeeds"]

\* The provider call of c ends as the provider it went to answers.
SettleBy(c, answers) ==
    Settle(c, answers[calls[c].actual] = "succeeds")

\* The clock value from which on every provider always fails
\* (setHealth(false) on each of them); before it they answer either way.
OutageFrom == 1

\* The provider call of c ends; during the outage it fails.
SettleOutage(c, ok) ==
    /\ ok => now < OutageFrom
    /\ Settle(c, ok)

\* The caller of c has taken the outcome of the call; c stands for the
\* caller's next call from now on.
Release(c) ==
    /\ calls[c].pc \in {"done", "failed"}
    /\ calls' = [d \in Calls |->
                    IF d = c THEN NewCall
                    ELSE [calls[d] EXCEPT !.before = @ \ {c}]]
    /\ UNCHANGED <<now, rlVars, cbVars, tasks, currentProviderIndex,
                   sentEmails, providersLength, lastDelay, queueVars>>

\* cleanup() is called.
Cleanup ==
    /\ sentEmails' = cleanup(sentEmails, now)
    /\ UNCHANGED <<now, rlVars, cbVars, tasks, currentProviderIndex, calls,
                   providersLength, lastDelay, queueVars>>

SvcInit ==
    /\ currentProviderIndex = 0
    /\ providersLength = Cardinality(Providers)
    /\ lastDelay = NoDelay
    /\ sentEmails = [k \in Keys |-> NoRecord]
    /\ calls = [c \in Calls |-> NewCall]

RlInit ==
    /\ requests = [i \in Identifiers |-> <<>>]
    /\ tokens = limit
    /\ lastRefill = 0
    /\ rlLast = [op |-> "none", arg |-> NoId, ret |-> TRUE, flip |-> 0]
    /\ admitted = [i \in Identifiers |-> <<>>]
    /\ admittedAll = [i \in Identifiers |-> <<>>]

\* ------------------------------------------------------- EmailQueue

\* The items addEmail creates in a run, by identifier, in the order of their
\* creation; the first two of them.
ItemIds == {1, 2, 3}
TwoItems == {1, 2}

\* EmailQueue options.processInterval, in clock units.
processInterval == 1
\* EmailQueue options.maxConcurrency and options.retryAttempts.
maxConcurrency == 2
retryAttempts == 3
\* calculateRetryDelay: baseDelay and maxDelay, in clock units.
retryBaseDelay == 1
retryMaxDelay == 30
\* cleanupQueue: maxAge, in clock units.
maxAge == 2

\* The startProcessing calls of a run.
Loops == {"l1", "l2"}

\* options.priority and options.maxAttempts when the caller gives none.
NoPriority == 0
NoMaxAttempts == 0
\* A time field that is not set.
NoTime == -1

\* The options callers pass to addEmail: a priority and a single attempt,
\* or a priority, or a single attempt.
PriorityOptions ==
    { [priority |-> pr, maxAttempts |-> 1] : pr \in {1, 5, 10} }
RetryOptions ==
    { [priority |-> 5, maxAttempts |-> NoMaxAttempts],
      [priority |-> NoPriority, maxAttempts |-> 1] }

\* The email of a queue item.
QueueEmail == [to |-> "a@x.io", subject |-> "s", body |-> "b", from |-> NoId]

\* What emailService.sendEmail throws at the queue.
DispatchErrors == { AllProvidersFailed(ProviderError(1)) }

\* An email with a destination that is not an address, and the emails
\* callers pass to addEmail.
BadAddressEmail == [to |-> "a.x.io", subject |-> "s", body |-> "b", from |-> NoId]
QueueRequests == {QueueEmail, BadAddressEmail}

\* How emailService.sendEmail(email) can end for the queue: with a result
\* (NoError) or an error; a request that fails validation always ends with
\* its validation error.
SendOutcomes(email) ==
    IF validateEmail(email) # NoError THEN {validateEmail(email)}
    ELSE DispatchErrors \cup {NoError}

\* No item object with this identifier.
NoItem == [status |-> "none"]

\* addEmail: the queueItem.
NewItem(email, options, t) ==
    [email |-> email,
     attempts |-> 0,
     maxAttempts |-> IF options.maxAttempts # NoMaxAttempts
                     THEN options.maxAttempts ELSE retryAttempts,
     priority |-> IF options.priority # NoPriority
                  THEN options.priority ELSE 0,
     createdAt |-> t,
     status |-> "pending",
     nextAttempt |-> NoTime, error |-> NoError,
     completedAt |-> NoTime, failedAt |-> NoTime]

compare_ascendingPriority(a, b) ==
    IF a.priority # b.priority
    THEN a.priority - b.priority
    ELSE a.createdAt - b.createdAt

\* sortQueue: the comparison function.
compare(a, b) ==
    IF a.priority # b.priority
    THEN b.priority - a.priority
    ELSE a.createdAt - b.createdAt

RECURSIVE insertItem(_, _, _)
RECURSIVE sortItems(_, _)

\* Array.prototype.sort is stable: an element goes behind every element that
\* the comparison does not put after it.
insertItem(sorted, id, its) ==
    IF sorted = <<>> THEN <<id>>
    ELSE IF compare(its[Head(sorted)], its[id]) <= 0
    THEN <<Head(sorted)>> \o insertItem(Tail(sorted), id, its)
    ELSE <<id>> \o sorted

sortItems(q, its) ==
    IF q = <<>> THEN <<>>
    ELSE insertItem(sortItems(SubSeq(q, 1, Len(q) - 1), its), q[Len(q)], its)

\* sortQueue()
sortQueue(q, its) == sortItems(q, its)

\* calculateRetryDelay(attempt)
calculateRetryDelay(attempt) ==
    LET exponentialDelay == retryBaseDelay * 2 ^ (attempt - 1)
    IN  IF exponentialDelay < retryMaxDelay THEN exponentialDelay
        ELSE retryMaxDelay

cleanupQueue_dropsSettled(q, its, t) ==
    SelectSeq(q, LAMBDA id : its[id].status \notin {"completed", "failed"})

\* cleanupQueue()
cleanupQueue(q, its, t) ==
    SelectSeq(q, LAMBDA id :
        its[id].status \in {"completed", "failed"} =>
            LET stamp == IF its[id].completedAt # NoTime THEN its[id].completedAt
                         ELSE IF its[id].failedAt # NoTime THEN its[id].failedAt
                         ELSE its[id].createdAt
            IN  t - stamp < maxAge)

itemsToProcess_anyUnsettled(q, its) ==
    LET pending == SelectSeq(q, LAMBDA id :
                       its[id].status \in {"pending", "processing"})
    IN  SubSeq(pending, 1,
               IF Len(pending) < maxConcurrency THEN Len(pending)
               ELSE maxConcurrency)

\* processQueue: this.queue.filter(pending).slice(0, maxConcurrency)
itemsToProcess(q, its) ==
    LET pending == SelectSeq(q, LAMBDA id : its[id].status = "pending")
    IN  SubSeq(pending, 1,
               IF Len(pending) < maxConcurrency THEN Len(pending)
               ELSE maxConcurrency)

\* The identifiers in a sequence.
Range(q) == {q[i] : i \in 1..Len(q)}

\* addEmail(null), addEmail(undefined): the email of the item.
NullEmail == [typeof |-> "null"]

\* processQueueItem: the log line before the try block reads
\* queueItem.email.to, a TypeError when the email is null or undefined.
dispatchThrows(item) == item.email = NullEmail

\* processQueueItem, up to the wait for sendEmail.
startItem(item) ==
    [item EXCEPT !.status = "processing", !.attempts = @ + 1]

\* processQueueItem after sendEmail returned a result.
completeItem(item, t) ==
    [item EXCEPT !.status = "completed", !.completedAt = t]

failItem_oneMoreAttempt(item, error, t) ==
    IF item.attempts > item.maxAttempts
    THEN [item EXCEPT !.status = "failed", !.error = error, !.failedAt = t]
    ELSE [item EXCEPT !.status = "pending",
                      !.nextAttempt = t + calculateRetryDelay(item.attempts)]

\* processQueueItem after sendEmail threw: the catch block.
failItem(item, error, t) ==
    IF item.attempts >= item.maxAttempts
    THEN [item EXCEPT !.status = "failed", !.error = error, !.failedAt = t]
    ELSE [item EXCEPT !.status = "pending",
                      !.nextAttempt = t + calculateRetryDelay(item.attempts)]

\* An item object nothing refers to any more is gone.
Collect(its, q) ==
    [id \in ItemIds |->
        IF id \in Range(q) \/ its[id].status = "processing"
        THEN its[id] ELSE NoItem]

\* The clock of the queue runs from 0 to MaxQueueTime.
MaxQueueTime == 2

\* A timer with this much left to wait has fired; the clock is followed up
\* to MaxQueueTime, where every timer still waiting fires.
Due(wait) == wait = 0 \/ now >= MaxQueueTime

\* Time passes for the queue.
QueueTick ==
    /\ now < MaxQueueTime
    /\ Tick

IdleLoop == [pc |-> "idle", awaiting |-> {}, wait |-> 0]

\* The loop of startProcessing calls processQueue and then waits for the
\* interval: processQueue returns at once when there is no pending item
\* and otherwise dispatches the items and waits for them to settle.
\* processQueueItem of an item whose email is null or undefined throws before
\* it calls sendEmail (it reads queueItem.email.to for the log line), with
\* the item in status processing: its promise is rejected at once and
\* Promise.allSettled does not wait for it.
RunPass(l) ==
    LET sel == itemsToProcess(queue, items)
        its == [id \in ItemIds |->
                   IF id \in Range(sel) THEN startItem(items[id])
                   ELSE items[id]]
        running == {id \in Range(sel) : ~dispatchThrows(items[id])}
        q == cleanupQueue(queue, its, now)
    IN  IF sel = <<>>
        THEN /\ loops' = [loops EXCEPT ![l] =
                    [pc |-> "delay", awaiting |-> {},
                     wait |-> processInterval]]
             /\ UNCHANGED <<items, queue>>
        ELSE IF running = {}
        THEN /\ loops' = [loops EXCEPT ![l] =
                    [pc |-> "delay", awaiting |-> {},
                     wait |-> processInterval]]
             /\ queue' = q
             /\ items' = Collect(its, q)
        ELSE /\ loops' = [loops EXCEPT ![l] =
                    [pc |-> "pass", awaiting |-> running, wait |-> 0]]
             /\ items' = its
             /\ UNCHANGED queue

\* addEmail(email, options)
AddEmail(email, options) ==
    LET id == created + 1
        its == [items EXCEPT ![id] = NewItem(email, options, now)]
    IN  /\ id \in ItemIds
        /\ created' = id
        /\ items' = its
        /\ queue' = sortQueue(Append(queue, id), its)
        /\ stats' = [stats EXCEPT !.pending = @ + 1]
        /\ UNCHANGED <<now, rlVars, cbVars, tasks, svcVars, processing, loops>>

\* startProcessing()
StartProcessing(l) ==
    /\ loops[l].pc = "idle"
    /\ IF processing
       THEN UNCHANGED <<processing, loops, items, queue>>
       ELSE /\ processing' = TRUE
            /\ RunPass(l)
    /\ UNCHANGED <<now, rlVars, cbVars, tasks, svcVars, created, stats>>

\* stopProcessing()
StopProcessing ==
    /\ processing' = FALSE
    /\ UNCHANGED <<now, rlVars, cbVars, tasks, svcVars, queue, items, created,
                   stats, loops>>

LoopWake_ignoresFlag(l) ==
    /\ loops[l].pc = "delay"
    /\ Due(loops[l].wait)
    /\ RunPass(l)
    /\ UNCHANGED <<now, rlVars, cbVars, tasks, svcVars, created, stats,
                   processing>>

\* The delay of the loop is over: while (this.processing).
LoopWake(l) ==
    /\ loops[l].pc = "delay"
    /\ Due(loops[l].wait)
    /\ IF processing
       THEN RunPass(l)
       ELSE /\ loops' = [loops EXCEPT ![l] = IdleLoop]
            /\ UNCHANGED <<items, queue>>
    /\ UNCHANGED <<now, rlVars, cbVars, tasks, svcVars, created, stats,
                   processing>>

QSettle_failFast(id, error) ==
    LET item == IF error = NoError THEN completeItem(items[id], now)
                ELSE failItem(items[id], error, now)
        its == [items EXCEPT ![id] = item]
        lastOfPass == \E l \in Loops :
            id \in loops[l].awaiting /\ (error # NoError \/ loops[l].awaiting = {id})
        q == IF lastOfPass THEN cleanupQueue(queue, its, now) ELSE queue
    IN  /\ items[id].status = "processing"
        /\ ~dispatchThrows(items[id])
        /\ queue' = q
        /\ items' = Collect(its, q)
        /\ stats' =
              IF item.status = "completed"
              THEN [stats EXCEPT !.processed = @ + 1, !.pending = @ - 1]
              ELSE IF item.status = "failed"
              THEN [stats EXCEPT !.failed = @ + 1, !.pending = @ - 1]
              ELSE stats
        /\ loops' = [l \in Loops |->
              IF id \notin loops[l].awaiting THEN loops[l]
              ELSE IF error # NoError \/ loops[l].awaiting = {id}
              THEN [pc |-> "delay", awaiting |-> {}, wait |-> processInterval]
              ELSE [loops[l] EXCEPT !.awaiting = @ \ {id}]]
        /\ UNCHANGED <<now, rlVars, cbVars, tasks, svcVars, created, processing>>

\* sendEmail for item id settles: with a result (error = NoError) or with an
\* error.  processQueueItem runs on; when it was the last dispatch of its
\* pass, Promise.allSettled resolves, processQueue runs cleanupQueue and
\* the loop starts its delay.
QSettle(id, error) ==
    LET item == IF error = NoError THEN completeItem(items[id], now)
                ELSE failItem(items[id], error, now)
        its == [items EXCEPT ![id] = item]
        lastOfPass == \E l \in Loops : loops[l].awaiting = {id}
        q == IF lastOfPass THEN cleanupQueue(queue, its, now) ELSE queue
    IN  /\ items[id].status = "processing"
        /\ ~dispatchThrows(items[id])
        /\ queue' = q
        /\ items' = Collect(its, q)
        /\ stats' =
              IF item.status = "completed"
              THEN [stats EXCEPT !.processed = @ + 1, !.pending = @ - 1]
              ELSE IF item.status = "failed"
              THEN [stats EXCEPT !.failed = @ + 1, !.pending = @ - 1]
              ELSE stats
        /\ loops' = [l \in Loops |->
              IF id \notin loops[l].awaiting THEN loops[l]
              ELSE IF loops[l].awaiting = {id}
              THEN [pc |-> "delay", awaiting |-> {}, wait |-> processInterval]
              ELSE [loops[l] EXCEPT !.awaiting = @ \ {id}]]
        /\ UNCHANGED <<now, rlVars, cbVars, tasks, svcVars, created, processing>>

\* removeItem(id)
RemoveItem(id) ==
    LET q == SelectSeq(queue, LAMBDA x : x # id)
    IN  /\ id \in Range(queue)
        /\ queue' = q
        /\ items' = Collect(items, q)
        /\ stats' = IF items[id].status = "pending"
                    THEN [stats EXCEPT !.pending = @ - 1] ELSE stats
        /\ UNCHANGED <<now, rlVars, cbVars, tasks, svcVars, created, processing,
                       loops>>

\* The status filters callers pass to clear; NoStatus is clear().
NoStatus == "null"
Statuses == {"pending", "processing", "completed", "failed"}

\* clear(status)
Clear(status) ==
    LET q == IF status # NoStatus
             THEN SelectSeq(queue, LAMBDA x : items[x].status # status)
             ELSE <<>>
    IN  /\ queue' = q
        /\ items' = Collect(items, q)
        /\ stats' = IF status # NoStatus THEN stats
                    ELSE [processed |-> 0, failed |-> 0, pending |-> 0]
        /\ UNCHANGED <<now, rlVars, cbVars, tasks, svcVars, created, processing,
                       loops>>

QueueInit ==
    /\ queue = <<>>
    /\ items = [id \in ItemIds |-> NoItem]
    /\ created = 0
    /\ processing = FALSE
    /\ stats = [processed |-> 0, failed |-> 0, pending |-> 0]
    /\ loops = [l \in Loops |-> IdleLoop]

Init ==
    /\ now = 0
    /\ RlInit
    /\ CbInit
    /\ SvcInit
    /\ QueueInit

\* The rate limiter on its own, called directly.
NextRL ==
    \/ Tick
    \/ \E arg \in IdArgs : RlIsAllowed(arg)
    \/ \E arg \in IdArgs : RlGetRemaining(arg)
    \/ \E arg \in IdArgs : RlReset(arg)

SpecRL == Init /\ [][NextRL]_vars

\* One circuit breaker on its own, called directly by concurrent tasks.
NextCB ==
    \/ Tick
    \/ \E tk \in Tasks : CbExecute(tk, 0)
    \/ \E tk \in Tasks, ok \in BOOLEAN : CbSettle(tk, ok)

SpecCB == Init /\ [][NextCB]_vars

\* One EmailService with concurrent sendEmail calls.
Next ==
    \/ Tick
    \/ \E c \in Calls, email \in Requests, options \in SendOptions :
           SendEmail(c, email, options)
    \/ \E c \in Calls, ok \in BOOLEAN : Settle(c, ok)
    \/ \E c \in Calls : Retry(c)
    \/ Cleanup

Spec == Init /\ [][Next]_vars

\* An EmailService constructed with any list of providers, the empty one
\* included (options.providers = []).
SvcInitWith(n) ==
    /\ currentProviderIndex = 0
    /\ providersLength = n
    /\ lastDelay = NoDelay
    /\ sentEmails = [k \in Keys |-> NoRecord]
    /\ calls = [c \in Calls |-> NewCall]

InitAnyProviders ==
    /\ now = 0
    /\ RlInit
    /\ CbInit
    /\ \E n \in 0..Cardinality(Providers) : SvcInitWith(n)
    /\ QueueInit

SpecAnyProviders == InitAnyProviders /\ [][Next]_vars

\* One EmailQueue: its callers, its processing loops and the dispatches of
\* its items.
NextQueue ==
    \/ QueueTick
    \/ \E options \in RetryOptions :
           created + 1 \in TwoItems /\ AddEmail(QueueEmail, options)
    \/ \E l \in Loops : StartProcessing(l)
    \/ StopProcessing
    \/ \E l \in Loops : LoopWake(l)
    \/ \E id \in ItemIds, error \in DispatchErrors \cup {NoError} :
           QSettle(id, error)
    \/ \E id \in ItemIds : RemoveItem(id)
    \/ \E status \in Statuses \cup {NoStatus} : Clear(status)

SpecQueue == Init /\ [][NextQueue]_vars

\* The same queue where time passes, every timer that is due fires and
\* every sendEmail the queue waits for settles.
SpecQueueLive ==
    /\ Init /\ [][NextQueue]_vars
    /\ WF_vars(QueueTick)
    /\ \A l \in Loops : WF_vars(LoopWake(l))
    /\ \A id \in ItemIds :
           WF_vars(\E error \in DispatchErrors \cup {NoError} : QSettle(id, error))

\* One EmailQueue with one processing loop and three items of different or
\* equal priorities, each dispatched once.
NextQueueOrder ==
    \/ QueueTick
    \/ \E options \in PriorityOptions : AddEmail(QueueEmail, options)
    \/ StartProcessing("l1")
    \/ LoopWake("l1")
    \/ \E id \in ItemIds, error \in DispatchErrors \cup {NoError} :
           QSettle(id, error)
    \/ \E id \in ItemIds : RemoveItem(id)
    \/ \E status \in Statuses \cup {NoStatus} : Clear(status)

SpecQueueOrder == Init /\ [][NextQueueOrder]_vars

\* One EmailQueue with one processing loop that is left running, its timer
\* followed exactly, for as long as the clock runs.
NextQueueAging ==
    \/ Tick
    \/ \E options \in RetryOptions :
           created + 1 \in TwoItems /\ AddEmail(QueueEmail, options)
    \/ StartProcessing("l1")
    \/ loops["l1"].wait = 0 /\ LoopWake("l1")
    \/ \E id \in ItemIds, error \in DispatchErrors \cup {NoError} :
           QSettle(id, error)

SpecQueueAging == Init /\ [][NextQueueAging]_vars

\* One EmailQueue that is started and stopped at will, with three items
\* that are dispatched once each.
SingleAttempt == [priority |-> NoPriority, maxAttempts |-> 1]

NextQueueRestarts ==
    \/ QueueTick
    \/ AddEmail(QueueEmail, SingleAttempt)
    \/ \E l \in Loops : StartProcessing(l)
    \/ StopProcessing
    \/ \E l \in Loops : LoopWake(l)
    \/ \E id \in ItemIds, error \in DispatchErrors \cup {NoError} :
           QSettle(id, error)

SpecQueueRestarts == Init /\ [][NextQueueRestarts]_vars

\* One EmailQueue with one processing loop, whose callers enqueue
\* well-formed and malformed requests.
NextQueueRequests ==
    \/ QueueTick
    \/ \E email \in QueueRequests, options \in RetryOptions :
           created + 1 \in TwoItems /\ AddEmail(email, options)
    \/ StartProcessing("l1")
    \/ LoopWake("l1")
    \/ \E id \in ItemIds :
           /\ items[id].status = "processing"
           /\ \E error \in SendOutcomes(items[id].email) : QSettle(id, error)

SpecQueueRequests == Init /\ [][NextQueueRequests]_vars

\* The emails callers pass to addEmail, null included: addEmail(null) pushes
\* the item, counts it and then throws (it reads email.to for its log line).
AnyEmails == {QueueEmail, NullEmail}

\* One EmailQueue whose loop is started and never stopped, where time
\* passes, every timer that is due fires and every sendEmail settles.
NextQueueDrain ==
    \/ QueueTick
    \/ \E email \in AnyEmails, options \in RetryOptions :
           created + 1 \in TwoItems /\ AddEmail(email, options)
    \/ StartProcessing("l1")
    \/ LoopWake("l1")
    \/ \E id \in ItemIds, error \in DispatchErrors \cup {NoError} :
           QSettle(id, error)

SpecQueueDrain ==
    /\ Init /\ [][NextQueueDrain]_vars
    /\ WF_vars(QueueTick)
    /\ WF_vars(LoopWake("l1"))
    /\ \A id \in ItemIds :
           WF_vars(\E error \in DispatchErrors \cup {NoError} : QSettle(id, error))

\* The service with providers [AlwaysFails, AlwaysSucceeds] and two callers
\* that send with or without an idempotency key of their own.
NextKeys ==
    \/ Tick
    \/ \E c \in Calls, email \in Emails, options \in KeyOptions :
           SendEmail(c, email, options)
    \/ \E c \in Calls : SettleBy(c, FallbackProviders)
    \/ \E c \in Calls : Retry(c)
    \/ Cleanup

SpecKeys == Init /\ [][NextKeys]_vars

\* calculateDelay on its own, called for any attempt.
NextDelay ==
    \E attempt \in 1..MaxAttempt, random \in Randoms :
        CalculateDelay(attempt, random)

SpecDelay == Init /\ [][NextDelay]_vars

\* The service with providers [AlwaysFails, AlwaysSucceeds].
NextFallback ==
    \/ Tick
    \/ \E c \in Calls, email \in Emails, options \in SendOptions :
           SendEmail(c, email, options)
    \/ \E c \in Calls : SettleBy(c, FallbackProviders)
    \/ \E c \in Calls : Retry(c)
    \/ Cleanup

SpecFallback == Init /\ [][NextFallback]_vars

\* The emails of one sender.
EmailsOfAlice == {e \in Emails : e.from = "alice"}

\* The service with providers [AlwaysFails, AlwaysSucceeds] and one sender
\* whose callers call sendEmail again and again, with or without an
\* idempotency key of their own.
NextBusy ==
    \/ Tick
    \/ \E c \in Calls, email \in EmailsOfAlice, options \in KeyOptions :
           SendEmail(c, email, options)
    \/ \E c \in Calls : SettleBy(c, FallbackProviders)
    \/ \E c \in Calls : Retry(c)
    \/ \E c \in Calls : Release(c)

SpecBusy == Init /\ [][NextBusy]_vars

\* The service whose providers all fail from OutageFrom on.
NextOutage ==
    \/ Tick
    \/ \E c \in Calls, email \in Emails, options \in SendOptions :
           SendEmail(c, email, options)
    \/ \E c \in Calls, ok \in BOOLEAN : SettleOutage(c, ok)
    \/ \E c \in Calls : Retry(c)
    \/ Cleanup

SpecOutage == Init /\ [][NextOutage]_vars

\* ------------------------------------------------ rate limiter: claims

\* A step in which isAllowed was called for identifier i.
IsAllowedStep(i) ==
    /\ rlLast'.flip # rlLast.flip
    /\ rlLast'.op = "isAllowed"
    /\ IdentOf(rlLast'.arg) = i

C4_Step ==
    \A i \in Identifiers :
        IsAllowedStep(i) =>
            /\ Len(admitted[i]) >= limit =>
                   /\ rlLast'.ret = FALSE
                   /\ requests' = requests
                   /\ admitted' = admitted
            /\ admitted[i] = <<>> => rlLast'.ret = TRUE

\* C4 (as amended): for every identifier, at every clock value, the
\* admissions (isAllowed calls that returned true) made since the
\* identifier's last reset with a time inside the trailing window
\* (now - window, now] number at most limit; a call made when limit such
\* admissions lie in the window returns false and records nothing, and a call
\* made when none lies in the window returns true.
C4_AdmissionsSinceResetWithinLimit ==
    /\ [](\A i \in Identifiers : Len(admitted[i]) <= limit)
    /\ [][C4_Step]_vars

\* C4 as stated, reset or not: the admissions inside the trailing window
\* never exceed limit.
C4_AdmissionsEverWithinLimit ==
    \A i \in Identifiers : Len(admittedAll[i]) <= limit

\* isAllowed has just refused an identifier with limit admissions in its window.
C4_Witness ==
    /\ rlLast.op = "isAllowed"
    /\ rlLast.ret = FALSE
    /\ Len(admitted[IdentOf(rlLast.arg)]) = limit
    /\ now >= window

\* The outcomes of the calls for identifier b at time t, given the limiter.
OutcomesFor(rl, b, t) ==
    <<isAllowed(rl, b, t).ret, isAllowed(rl, b, t).rl.requests[b],
      getRemaining(rl, b, t)>>

C5_Step ==
    rlLast'.flip # rlLast.flip =>
        /\ \A b \in Identifiers \ {IdentOf(rlLast'.arg)} :
               /\ requests'[b] = requests[b]
               /\ \A t \in now..MaxTime :
                      OutcomesFor(RL', b, t) = OutcomesFor(RL, b, t)
        /\ (rlLast'.arg = NoId /\ rlLast'.op = "isAllowed") =>
               /\ rlLast'.ret = (Len(admitted["default"]) < limit)
               /\ rlLast'.ret => requests'["default"] # <<>> /\
                                 requests'["default"][Len(requests'["default"])] = now

\* C5: a call of isAllowed, getRemaining or reset for one identifier leaves
\* the history of every other identifier, and with it the outcome of every
\* later call for that identifier, as it was; a call without an identifier
\* is admitted against, and recorded in, the bucket 'default'.
C5_PerIdentifier == [][C5_Step]_vars

\* A call without identifier was admitted while another bucket is in use.
C5_Witness ==
    /\ rlLast.op = "isAllowed"
    /\ rlLast.arg = NoId
    /\ rlLast.ret = TRUE
    /\ Len(requests["alice"]) = limit
    /\ Len(requests["default"]) = 1

\* --------------------------------------------- circuit breaker: claims

\* A step in which breaker p saw the event op.
CbStep(op, p) ==
    /\ cbLast'.flip # cbLast.flip
    /\ cbLast'.op = op
    /\ cbLast'.p = p

\* A step in which execute was called on breaker p.
CbCallStep(p) == CbStep("admit", p) \/ CbStep("reject", p)

\* The operations breaker p has let through that have not ended yet.
InFlight(p) ==
    {tk \in Tasks : tasks[tk].pc = "running" /\ tasks[tk].p = p}

C6_Step ==
    \A p \in Providers :
        circuitBreakers[p].state = "CLOSED" =>
            /\ circuitBreakers'[p].state \in {"CLOSED", "OPEN"}
            /\ circuitBreakers'[p].state = "OPEN" <=>
                   /\ CbStep("failure", p)
                   /\ streak[p] + 1 = failureThreshold
            /\ circuitBreakers'[p].state = "OPEN" =>
                   /\ circuitBreakers'[p].failureCount = failureThreshold
                   /\ circuitBreakers'[p].nextAttempt = now + resetTimeout
            /\ CbStep("success", p) => circuitBreakers'[p].failureCount = 0
            /\ CbStep("failure", p) =>
                   circuitBreakers'[p].failureCount =
                       circuitBreakers[p].failureCount + 1

\* C6: while a breaker is CLOSED its failureCount is the number of failed
\* operations since the last successful one and is below failureThreshold;
\* it leaves CLOSED only for OPEN, and exactly in the step in which a failed
\* operation makes that number reach failureThreshold; a successful
\* operation in CLOSED sets failureCount to 0.
C6_ClosedToOpenAtThreshold ==
    /\ [](\A p \in Providers :
            circuitBreakers[p].state = "CLOSED" =>
                /\ circuitBreakers[p].failureCount = streak[p]
                /\ circuitBreakers[p].failureCount < failureThreshold)
    /\ [][C6_Step]_vars

\* A failed operation has just made failureCount reach failureThreshold and
\* opened the breaker.
C6_Witness ==
    /\ cbLast.op = "failure"
    /\ cbLast.role = "normal"
    /\ circuitBreakers[cbLast.p].state = "OPEN"
    /\ circuitBreakers[cbLast.p].failureCount = failureThreshold
    /\ streak[cbLast.p] = failureThreshold

C7_Step ==
    \A p \in Providers :
        (/\ CbCallStep(p)
         /\ circuitBreakers[p].state = "OPEN"
         /\ now < circuitBreakers[p].nextAttempt) =>
            /\ cbLast'.op = "reject"
            /\ cbLast'.error = BreakerOpenError
            /\ tasks' = tasks
            /\ circuitBreakers'[p] = circuitBreakers[p]

\* C7: an execute call on a breaker that is OPEN, made before nextAttempt,
\* is rejected (the breaker-open error), starts no operation and leaves the
\* breaker's state, failureCount and nextAttempt as they were.
C7_OpenRejects == [][C7_Step]_vars

\* A call has just been rejected by an OPEN breaker inside its cooldown.
C7_Witness ==
    /\ cbLast.op = "reject"
    /\ circuitBreakers[cbLast.p].state = "OPEN"
    /\ now < circuitBreakers[cbLast.p].nextAttempt

C8_Step ==
    \A p \in Providers :
        /\ (/\ CbCallStep(p)
            /\ circuitBreakers[p].state = "OPEN"
            /\ now >= circuitBreakers[p].nextAttempt) =>
               /\ cbLast'.op = "admit"
               /\ cbLast'.role = "probe"
               /\ circuitBreakers'[p].state = "HALF_OPEN"
               /\ Cardinality(InFlight(p)') = Cardinality(InFlight(p)) + 1
        /\ (CbStep("success", p) /\ cbLast'.role = "probe") =>
               /\ circuitBreakers[p].state = "HALF_OPEN"
               /\ circuitBreakers'[p].state = "CLOSED"
               /\ circuitBreakers'[p].failureCount = 0

\* C8: an execute call on a breaker that is OPEN, made at or after
\* nextAttempt, moves it to HALF_OPEN and runs its operation as the probe;
\* when the probe succeeds the breaker is CLOSED with failureCount 0.
C8_ProbeAfterCooldown == [][C8_Step]_vars

\* A probe has just succeeded and closed the breaker.
C8_Witness ==
    /\ cbLast.op = "success"
    /\ cbLast.role = "probe"
    /\ circuitBreakers[cbLast.p].state = "CLOSED"

C9_Step ==
    \A p \in Providers :
        (CbStep("failure", p) /\ cbLast'.role = "probe") =>
            /\ circuitBreakers[p].state = "HALF_OPEN"
            /\ circuitBreakers'[p].state = "OPEN"
            /\ circuitBreakers'[p].nextAttempt = now + resetTimeout

\* C9: when the probe fails the breaker is OPEN again with nextAttempt equal
\* to the time of the failure plus resetTimeout, and whenever a breaker is
\* OPEN its nextAttempt is a time at most resetTimeout ahead.
C9_FailedProbeReopens ==
    /\ [](\A p \in Providers :
            circuitBreakers[p].state = "OPEN" =>
                /\ circuitBreakers[p].nextAttempt \in Int
                /\ circuitBreakers[p].nextAttempt <= now + resetTimeout)
    /\ [][C9_Step]_vars

\* A probe has just failed and the breaker is in a fresh cooldown.
C9_Witness ==
    /\ cbLast.op = "failure"
    /\ cbLast.role = "probe"
    /\ circuitBreakers[cbLast.p].state = "OPEN"
    /\ circuitBreakers[cbLast.p].nextAttempt = now + resetTimeout
    /\ now >= resetTimeout

\* The probes in flight at breaker p.
Probes(p) ==
    {tk \in Tasks : tasks[tk].pc = "running" /\ tasks[tk].p = p
                    /\ tasks[tk].role = "probe"}

C10_Step ==
    \A p \in Providers :
        (CbCallStep(p) /\ Probes(p) # {}) =>
            /\ cbLast'.op = "reject"
            /\ cbLast'.error = BreakerOpenError
            /\ tasks' = tasks
            /\ circuitBreakers'[p] = circuitBreakers[p]

\* C10: at every moment at most one operation is in flight as the probe of a
\* breaker, and the breaker is HALF_OPEN exactly while one is; an execute
\* call that arrives while the probe is in flight, the cooldown elapsed or
\* not, is rejected and starts no operation.
C10_OneProbeInFlight ==
    /\ [](\A p \in Providers :
            /\ Cardinality(Probes(p)) <= 1
            /\ circuitBreakers[p].state = "HALF_OPEN" <=> Probes(p) # {})
    /\ [][C10_Step]_vars

\* A call that arrived after the cooldown, while the probe was in flight, has
\* just been rejected.
C10_Witness ==
    /\ cbLast.op = "reject"
    /\ circuitBreakers[cbLast.p].state = "HALF_OPEN"
    /\ Probes(cbLast.p) # {}
    /\ now >= circuitBreakers[cbLast.p].nextAttempt

\* ------------------------------------------------------ idempotency: claims

\* The record is inside its time to live at time t.
Live(record, t) == t - record.timestamp.ms <= idempotencyTtl

\* The call went to the providers and one of them delivered.
Delivered(c) == calls[c].pc = "done" /\ calls[c].tried # <<>>

\* C1: when a sendEmail call c1 has returned a result and a second call c2
\* with the same key starts after c1 has ended and finds c1's record
\* unexpired, c2 returns at once a result with c1's message identifier and
\* calls no circuit breaker and no provider; and as long as a returned
\* result is not older than idempotencyTtl the cache holds a record for its
\* key that is at least as new.
C1_SequentialDuplicate ==
    /\ \A c1 \in Calls : \A c2 \in Calls \ {c1} :
          (/\ calls[c1].pc = "done"
           /\ c1 \in calls[c2].before
           /\ calls[c2].key = calls[c1].key
           /\ calls[c2].found # NoRecord
           /\ calls[c2].found.messageId = calls[c1].result.messageId
           /\ Live(calls[c2].found, calls[c2].startedAt)) =>
              /\ calls[c2].pc = "done"
              /\ calls[c2].endedAt = calls[c2].startedAt
              /\ calls[c2].result.messageId = calls[c1].result.messageId
              /\ calls[c2].tried = <<>>
    /\ \A c \in Calls :
          (calls[c].pc = "done" /\ Live(calls[c].result, now)) =>
              /\ sentEmails[calls[c].key] # NoRecord
              /\ sentEmails[calls[c].key].timestamp.ms >=
                     calls[c].result.timestamp.ms

\* The second of two sequential calls with the same key, made exactly
\* idempotencyTtl after the first, was answered from the cache.
C1_Witness ==
    /\ Delivered("c1")
    /\ calls["c2"].pc = "done"
    /\ "c1" \in calls["c2"].before
    /\ calls["c2"].key = calls["c1"].key
    /\ calls["c2"].tried = <<>>
    /\ calls["c2"].result.messageId = calls["c1"].result.messageId
    /\ calls["c2"].startedAt = calls["c1"].endedAt + idempotencyTtl

\* C2 as stated: of the sendEmail calls with one fingerprint, at most one is
\* delivered by a provider (and produces a result of its own) within
\* idempotencyTtl.
C2_OneDeliveryPerFingerprint ==
    \A c1 \in Calls : \A c2 \in Calls \ {c1} :
        (Delivered(c1) /\ Delivered(c2) /\ calls[c1].key = calls[c2].key) =>
            \/ calls[c2].endedAt - calls[c1].endedAt > idempotencyTtl
            \/ calls[c1].endedAt - calls[c2].endedAt > idempotencyTtl

\* A step in which call c starts with a well-formed email.
StartStep(c) ==
    /\ calls[c].pc = "idle"
    /\ calls'[c].pc # "idle"
    /\ calls'[c].key # NoKey

C3_Step ==
    /\ \A c \in Calls :
          (StartStep(c) /\ sentEmails[calls'[c].key] # NoRecord) =>
              LET k == calls'[c].key
                  record == sentEmails[k]
              IN  IF now - record.timestamp.ms <= idempotencyTtl
                  THEN /\ calls'[c].pc = "done"
                       /\ calls'[c].result = record
                       /\ calls'[c].tried = <<>>
                       /\ sentEmails' = sentEmails
                       /\ requests' = requests
                  ELSE /\ sentEmails'[k] = NoRecord
                       /\ calls'[c].pc # "done"
                       /\ calls'[c].error # RateLimitExceeded =>
                              calls'[c].tried # <<>>
                       /\ calls'[c].error = RateLimitExceeded =>
                              Len(recentRequests(
                                  requests[IdentOf(calls'[c].email.from)],
                                  now - window)) >= limit
    /\ (calls' = calls /\ sentEmails' # sentEmails) =>
          \A k \in Keys :
              sentEmails'[k] =
                  IF sentEmails[k] # NoRecord /\ ~Live(sentEmails[k], now)
                  THEN NoRecord ELSE sentEmails[k]

\* C3: a record counts as live exactly while now - record.timestamp <=
\* idempotencyTtl: a sendEmail that finds a live record for its key returns
\* it and touches nothing; one that finds only an expired record deletes it
\* on the lookup and is handled as a first send (it goes to the rate limiter
\* and, when admitted, to the circuit breakers and providers), and the
\* result it returns comes from a provider and bears a new message
\* identifier, under which the cache then holds the key; cleanup deletes
\* exactly the expired records.
C3_ExpiredRecordIsEvicted ==
    /\ [](\A c \in Calls :
            (/\ calls[c].pc = "done"
             /\ calls[c].found # NoRecord
             /\ ~Live(calls[c].found, calls[c].startedAt)) =>
                /\ Delivered(c)
                /\ calls[c].tried[Len(calls[c].tried)][2] = "sent"
                /\ calls[c].result.messageId # calls[c].found.messageId
                /\ calls[c].result.timestamp.type = "string")
    /\ [][C3_Step]_vars

\* A call that found only an expired record has been delivered anew.
C3_Witness ==
    \E c \in Calls :
        /\ calls[c].pc = "done"
        /\ calls[c].found # NoRecord
        /\ calls[c].startedAt - calls[c].found.timestamp.ms = idempotencyTtl + 1
        /\ calls[c].result.messageId # calls[c].found.messageId
        /\ sentEmails[calls[c].key].messageId = calls[c].result.messageId

\* ------------------------------------------------- fallback: claims

\* The call has returned or thrown.
HasEnded(c) == calls[c].pc \in {"done", "failed"}

\* C11: with providers [always fails, always succeeds], every sendEmail call
\* that started while the affinity index was at the failing provider returns
\* a result whose provider field names the succeeding provider, and no
\* error reaches its caller.
C11_FallbackReturnsHealthyProvider ==
    \A c \in Calls :
        (HasEnded(c) /\ calls[c].affinity = 0) =>
            /\ calls[c].pc = "done"
            /\ calls[c].error = NoError
            /\ calls[c].result.provider = ProviderName(1)

\* The error the caller of execute saw at an entry of tried.
ErrorOf(entry) ==
    IF entry[2] = "rejected" THEN BreakerOpenError ELSE ProviderError(entry[1])

\* The provider of the i-th execute call of a send that started with the
\* affinity index at a: maxRetries calls for each provider, the providers in
\* the order a, a + 1, ... wrapping around.
RotationFrom(a, i) == (a + ((i - 1) \div maxRetries)) % N

\* The call went through its whole life while every provider was failing.
InOutage(c) ==
    /\ calls[c].pc # "idle"
    /\ calls[c].startedAt >= OutageFrom
    /\ calls[c].tried # <<>>

\* C12: while every provider always fails, a sendEmail call that reaches the
\* providers calls them in rotation order starting at the affinity index,
\* each provider exactly once with maxRetries execute calls (a call the
\* breaker rejects counts as one), and then fails with the
\* all-providers-failed error carrying the message of the last error.
C12_ExhaustsEveryProviderInRotation ==
    \A c \in Calls :
        InOutage(c) =>
            /\ Len(calls[c].tried) <= N * maxRetries
            /\ \A i \in 1..Len(calls[c].tried) :
                   calls[c].tried[i][1] = RotationFrom(calls[c].affinity, i)
            /\ HasEnded(c) =>
                   /\ calls[c].pc = "failed"
                   /\ Len(calls[c].tried) = N * maxRetries
                   /\ calls[c].error =
                          AllProvidersFailed(
                              ErrorOf(calls[c].tried[N * maxRetries]))

\* A send that started with the affinity index at provider 1 during the
\* outage has failed after execute calls at provider 1, then provider 0, one
\* of which reached the provider.
C12_Witness ==
    \E c \in Calls :
        /\ InOutage(c)
        /\ calls[c].pc = "failed"
        /\ calls[c].affinity = 1
        /\ Len(calls[c].tried) = N * maxRetries
        /\ calls[c].tried[N * maxRetries] = <<0, "sent">>

\* ------------------------------------------------- outcomes: claims

\* The messages of the errors validateEmail throws.
ValidationErrors ==
    { <<"Email must be an object">>, <<"Email to is required">>,
      <<"Email subject is required">>, <<"Email body is required">>,
      <<"Invalid email address format">> }

\* The error is the all-providers-failed error.
IsAllProvidersFailed(error) ==
    /\ Len(error) > 1
    /\ error = AllProvidersFailed(Tail(error))

\* C13: for any number of configured providers, a sendEmail call that has
\* ended has ended in one of four ways: with a DispatchResult, with a
\* validation error, with the rate-limit-exceeded error or with the
\* all-providers-failed error.
C13_OneOfFourOutcomes ==
    \A c \in Calls :
        HasEnded(c) =>
            \/ /\ calls[c].pc = "done"
               /\ calls[c].error = NoError
               /\ calls[c].result.success
            \/ /\ calls[c].pc = "failed"
               /\ calls[c].result = NoRecord
               /\ \/ calls[c].error \in ValidationErrors
                  \/ calls[c].error = RateLimitExceeded
                  \/ IsAllProvidersFailed(calls[c].error)

\* ------------------------------------------------ validation: claims

\* The request is not an object, lacks to, subject or body, or has a
\* destination that is not an address.
IsMalformed(email) ==
    \/ "typeof" \in DOMAIN email
    \/ email.to = ""
    \/ email.subject = ""
    \/ email.body = ""
    \/ email.to \notin WellFormed

\* The step is the call of sendEmail for c.
StartsCall(c) == calls[c].pc = "idle" /\ calls'[c].pc # "idle"

C14_Step ==
    \A c \in Calls :
        (StartsCall(c) /\ IsMalformed(calls'[c].email)) =>
            /\ calls'[c].pc = "failed"
            /\ calls'[c].error \in ValidationErrors
            /\ calls'[c].tried = <<>>
            /\ requests' = requests
            /\ sentEmails' = sentEmails
            /\ circuitBreakers' = circuitBreakers
            /\ currentProviderIndex' = currentProviderIndex

\* C14: a sendEmail call with a malformed request fails with a validation
\* error at once: no rate-limit entry is recorded, the idempotency cache is
\* as before, no circuit breaker or provider is called and the affinity
\* index is unchanged.
C14_MalformedFailsFirst == [][C14_Step]_vars

\* A request with a destination that is not an address has been refused
\* while the cache held a record, the limiter an entry, a breaker was open
\* and the affinity index was at the second provider.
C14_Witness ==
    \E c \in Calls :
        /\ calls[c].pc = "failed"
        /\ calls[c].error = <<"Invalid email address format">>
        /\ calls[c].before # {}
        /\ currentProviderIndex = 1
        /\ circuitBreakers[0].state = "OPEN"
        /\ \E k \in Keys : sentEmails[k] # NoRecord
        /\ \E i \in Identifiers : requests[i] # <<>>

\* --------------------------------------------- rate-limit refusal: claims

\* The identifier the sender of a request is limited under.
SenderOf(email) == IF email.from = NoId THEN "default" ELSE email.from

\* The window of identifier i holds limit admissions.
WindowFull(i) == Len(recentRequests(requests[i], now - window)) >= limit

\* The record is there and no longer live.
IsExpired(record) ==
    /\ record # NoRecord
    /\ now - record.timestamp.ms > idempotencyTtl

\* The step is a sendEmail call for c that ends with the rate-limit error.
RefusedStep(c) ==
    /\ StartsCall(c)
    /\ calls'[c].error = RateLimitExceeded

\* The step is a sendEmail call for c with a well-formed request whose key
\* has no live record.
FreshStep(c) ==
    /\ StartsCall(c)
    /\ ~IsMalformed(calls'[c].email)
    /\ \/ sentEmails[calls'[c].key] = NoRecord
       \/ IsExpired(sentEmails[calls'[c].key])

C15_StepOriginal ==
    \A c \in Calls :
        RefusedStep(c) =>
            /\ calls'[c].pc = "failed"
            /\ calls'[c].tried = <<>>
            /\ circuitBreakers' = circuitBreakers
            /\ currentProviderIndex' = currentProviderIndex
            /\ sentEmails' = sentEmails

\* C15 (as stated): a refused sendEmail call fails with the rate-limit error
\* without calling a breaker or a provider and leaves the idempotency cache
\* and the affinity index as they were.
C15_RefusalLeavesCacheUnchanged == [][C15_StepOriginal]_vars

C15_Step ==
    \A c \in Calls :
        /\ FreshStep(c) =>
               (WindowFull(SenderOf(calls'[c].email)) <=> RefusedStep(c))
        /\ RefusedStep(c) =>
               /\ FreshStep(c)
               /\ calls'[c].pc = "failed"
               /\ calls'[c].result = NoRecord
               /\ calls'[c].tried = <<>>
               /\ circuitBreakers' = circuitBreakers
               /\ currentProviderIndex' = currentProviderIndex
               /\ requests' = requests
               /\ \A k \in Keys :
                      \/ sentEmails'[k] = sentEmails[k]
                      \/ /\ k = calls'[c].key
                         /\ IsExpired(sentEmails[k])
                         /\ sentEmails'[k] = NoRecord

\* C15 (as amended): a sendEmail call that reaches the rate limiter is
\* refused exactly when the window of the sender's identifier (email.from,
\* or 'default' when absent) is full; it then fails with the rate-limit
\* error without calling a breaker or a provider, records no admission and
\* leaves the affinity index and every live record of the idempotency cache
\* as they were: the only change to the cache is that the expired record
\* of the call's own key, if there is one, has been evicted by the lookup.
C15_RefusalEvictsAtMostExpired == [][C15_Step]_vars

\* A call was refused after its lookup had evicted the expired record of its
\* key, while the affinity index was at the second provider.
C15_Witness ==
    \E c \in Calls :
        /\ calls[c].pc = "failed"
        /\ calls[c].error = RateLimitExceeded
        /\ calls[c].found # NoRecord
        /\ sentEmails[calls[c].key] = NoRecord
        /\ currentProviderIndex = 1
        /\ WindowFull("alice")

\* ------------------------------------------------------ queue: claims

\* Item a goes before item b: higher priority, or the same priority and
\* enqueued earlier (identifiers are given in the order of the addEmail
\* calls).
GoesBefore(a, b) ==
    \/ items[a].priority > items[b].priority
    \/ items[a].priority = items[b].priority /\ a < b

\* The queue list is in order.
QueueOrdered ==
    \A i \in 1..Len(queue) : \A j \in 1..Len(queue) :
        i < j => GoesBefore(queue[i], queue[j])

\* The items of the queue that are pending, and those a step dispatches.
PendingIds == {id \in Range(queue) : items[id].status = "pending"}
Dispatched == {id \in PendingIds : items'[id].status = "processing"}

C16_Step ==
    /\ \A id \in ItemIds :
           (items[id].status # "processing" /\ items'[id].status = "processing")
               => id \in PendingIds
    /\ Cardinality(Dispatched) <= maxConcurrency
    /\ Dispatched # {} =>
           \A s \in Dispatched : \A u \in PendingIds \ Dispatched :
               /\ GoesBefore(s, u)
               /\ Cardinality(Dispatched) = maxConcurrency

\* C16: the queue list is always ordered by priority descending, ties in
\* enqueue order, and a pass dispatches the first maxConcurrency pending
\* items of that order: highest priority first, FIFO within a priority.
C16_PriorityThenFifo == []QueueOrdered /\ [][C16_Step]_vars

\* Items enqueued with priorities 1, 10, 5 stand in the queue as 10, 5, 1;
\* a pass has dispatched the first two and left the third pending.
C16_Witness ==
    /\ items[1].status = "pending" /\ items[1].priority = 1
    /\ items[2].status = "processing" /\ items[2].priority = 10
    /\ items[3].status = "processing" /\ items[3].priority = 5
    /\ queue = <<2, 3, 1>>

\* The item objects that exist.
Exists(id) == items[id] # NoItem

AttemptsWithinMax ==
    \A id \in ItemIds : Exists(id) => items[id].attempts <= items[id].maxAttempts

\* The dispatch of item id fails in this step.
DispatchFails(id) ==
    /\ items[id].status = "processing"
    /\ items'[id].status \in {"pending", "failed"}

C17_Step ==
    \A id \in ItemIds :
        /\ DispatchFails(id) =>
               /\ items'[id].attempts = items[id].attempts
               /\ items'[id].status = "pending" <=>
                      items[id].attempts < items[id].maxAttempts
               /\ items'[id].status = "failed" <=>
                      items[id].attempts = items[id].maxAttempts
               /\ items'[id].status = "failed" =>
                      /\ items'[id].error \in DispatchErrors
                      /\ items'[id].failedAt = now
        /\ items[id].status = "failed" =>
               /\ items'[id].status \in {"failed", "none"}
               /\ Exists(id)' => items'[id].attempts = items[id].attempts

\* C17: attempts <= maxAttempts for every item at every time; a failed
\* dispatch returns the item to pending when attempts < maxAttempts and
\* marks it failed, with the error and the failure time, exactly when
\* attempts has reached maxAttempts; a failed item is never dispatched
\* again.
C17_AttemptsBounded == []AttemptsWithinMax /\ [][C17_Step]_vars

\* An item with the default three attempts has failed for good on its
\* third dispatch while another one failed on its only one.
C17_Witness ==
    \E id \in ItemIds, other \in ItemIds :
        /\ items[id].status = "failed"
        /\ items[id].maxAttempts = retryAttempts
        /\ items[id].attempts = retryAttempts
        /\ items[id].error \in DispatchErrors
        /\ items[other].status = "failed"
        /\ items[other].maxAttempts = 1

\* A pass selects item id in this step.
Selected(id) ==
    /\ items[id].status = "pending"
    /\ items'[id].status = "processing"

\* Every loop that starts a pass in this step has waited out its interval.
TimersRanOut ==
    \A l \in Loops :
        (loops[l].pc = "delay" /\ loops'[l].pc = "pass") => loops[l].wait = 0

\* C18: an item returned to pending after a failed dispatch is not selected
\* by a pass before its nextAttempt time, the failure time plus
\* calculateRetryDelay(attempts), has passed.
C18_NotSelectedBeforeNextAttempt ==
    [][ \A id \in ItemIds :
           (Selected(id) /\ TimersRanOut /\ items[id].nextAttempt # NoTime)
               => now >= items[id].nextAttempt ]_vars

\* The loops that are in a pass, and those that are in a pass or will start
\* another one when their interval is over.
LoopsInPass == {l \in Loops : loops[l].pc = "pass"}
ActiveLoops ==
    {l \in Loops : loops[l].pc = "pass" \/ (loops[l].pc = "delay" /\ processing)}

\* C19: for any sequence of startProcessing and stopProcessing calls, at
\* most one coordinator loop is active and no two passes overlap in time.
C19_OneLoopNoOverlap ==
    /\ Cardinality(ActiveLoops) <= 1
    /\ Cardinality(LoopsInPass) <= 1

\* Two loops are in a pass at the same time, each waiting for a dispatch
\* of its own.
TwoPassesOverlap ==
    /\ loops["l1"].pc = "pass" /\ loops["l2"].pc = "pass"
    /\ loops["l1"].awaiting # {} /\ loops["l2"].awaiting # {}

\* No loop is left and no dispatch is in flight.
Quiet ==
    /\ \A l \in Loops : loops[l] = IdleLoop
    /\ \A id \in ItemIds : items[id].status # "processing"

\* A step of a stopped queue that nobody starts again: no loop starts a
\* pass, a loop whose interval is over exits, no item is dispatched, and an
\* item in flight stays in flight or settles.
C20_StoppedStep ==
    (~processing /\ ~processing') =>
        /\ \A l \in Loops :
               /\ loops'[l].pc = "pass" => loops[l].pc = "pass"
               /\ loops'[l].awaiting \subseteq loops[l].awaiting
               /\ (loops[l].pc = "delay" /\ loops'[l].pc # "delay")
                      => loops'[l] = IdleLoop
        /\ \A id \in ItemIds :
               /\ ~Selected(id)
               /\ items[id].status = "processing" =>
                      items'[id].status \in
                          {"processing", "completed", "pending", "failed", "none"}

\* stopProcessing interrupts nothing: the items and the loops are as they
\* were.
C20_StopStep ==
    (processing /\ ~processing') => UNCHANGED <<queue, items, loops>>

PassAwaitsItsItems ==
    \A l \in Loops :
        /\ loops[l].pc = "pass" <=> loops[l].awaiting # {}
        /\ \A id \in loops[l].awaiting : items[id].status = "processing"

C21_Step ==
    /\ \A l \in Loops :
           \* a pass dispatches all the items it selected at once
           /\ (loops[l].pc # "pass" /\ loops'[l].pc = "pass") =>
                  /\ loops'[l].awaiting = Range(itemsToProcess(queue, items))
                  /\ \A id \in loops'[l].awaiting : Selected(id)
           \* and ends when the last of them has settled
           /\ (loops[l].pc = "pass" /\ loops'[l].pc # "pass") =>
                  /\ \A id \in loops[l].awaiting :
                         items'[id].status # "processing"
                  /\ loops'[l].pc = "delay"
    /\ \A id \in ItemIds : DispatchFails(id) =>
           \A other \in ItemIds \ {id} :
               items[other].status = "processing" =>
                   /\ items'[other] = items[other]
                   /\ \A l \in Loops :
                          other \in loops[l].awaiting =>
                              /\ other \in loops'[l].awaiting
                              /\ loops'[l].pc = "pass"

CallerRemoves ==
    \/ \E id \in ItemIds : RemoveItem(id)
    \/ \E status \in Statuses \cup {NoStatus} : Clear(status)

\* A failed item in the queue carries its error and its failure time.
FailedKeepsError ==
    \A id \in Range(queue) : items[id].status = "failed" =>
        /\ items[id].error \in DispatchErrors
        /\ items[id].failedAt # NoTime
        /\ items[id].attempts = items[id].maxAttempts

C22_Step ==
    \A id \in Range(queue) : items[id].status = "failed" =>
        /\ id \in Range(queue') => items'[id] = items[id]
        /\ now - items[id].failedAt < maxAge => id \in Range(queue')

\* C22: an item that has exhausted its attempts stays in the queue with
\* status failed and its error until the retention sweep removes it: no pass
\* and no sweep run less than maxAge after the failure removes it or changes
\* its status or error (removeItem and clear are the caller's own removals).
C22_FailedItemRetained ==
    []FailedKeepsError /\ [][CallerRemoves \/ C22_Step]_vars

\* A failed item is still in the queue after a later pass has completed
\* another item and swept the queue.
C22_Witness ==
    \E id \in Range(queue), other \in Range(queue) :
        /\ items[id].status = "failed"
        /\ items[other].status = "completed"
        /\ items[other].completedAt > items[id].failedAt
        /\ \A l \in Loops : loops[l].pc # "pass"

\* Loop l ends a pass in this step and starts to wait for the interval; the
\* pass may have found nothing to dispatch.
PassEnds(l) ==
    /\ loops'[l] # loops[l]
    /\ loops'[l].pc = "delay"
    /\ loops'[l].wait = processInterval

\* The time an item was completed or failed at.
SettledAt(item) ==
    IF item.status = "completed" THEN item.completedAt ELSE item.failedAt

\* The completed or failed items of queue q that are older than maxAge at
\* time t.
Overdue(q, its, t) ==
    {id \in Range(q) :
        /\ its[id].status \in {"completed", "failed"}
        /\ t - SettledAt(its[id]) > maxAge}

\* C23: after each processing pass, a pass that finds no pending item
\* included, every completed or failed item older than maxAge has been
\* removed from the queue.
C23_SweepAfterEveryPass ==
    [][ (\E l \in Loops : PassEnds(l)) => Overdue(queue', items', now') = {} ]_vars

\* ------------------------------------------------------- backoff: claims

\* calculateDelay has been called.
DelayCalled == lastDelay # NoDelay

\* The exponential delay of an attempt without jitter, in seconds.
Exponential(attempt) == baseDelay * 2 ^ (attempt - 1)

\* C24: for every attempt k >= 1, calculateDelay(k) lies between
\* min(baseDelay * 2^(k-1), maxDelay) and min(baseDelay * 2^(k-1) * 1.1,
\* maxDelay), both included: never above maxDelay, and never below the
\* exponential delay unless capped.  (1.1 seconds are 11 * RandomSteps units.)
C24_DelayWithinBounds ==
    DelayCalled =>
        LET e == Exponential(lastDelay.attempt)
        IN  /\ lastDelay.delay >= Min(e, maxDelay) * DelayScale
            /\ lastDelay.delay <= Min(e * 11 * RandomSteps, maxDelay * DelayScale)
            /\ lastDelay.delay <= maxDelay * DelayScale

\* The delay of the attempt whose exponential delay is maxDelay, with the
\* largest jitter: the cap has cut the jitter off.
C24_Witness ==
    /\ DelayCalled
    /\ Exponential(lastDelay.attempt) = maxDelay
    /\ lastDelay.random = RandomSteps - 1
    /\ lastDelay.delay = maxDelay * DelayScale

\* --------------------------------------------- idempotency keys: claims

\* The call was answered from the cache.
FromCache(c) == calls[c].pc = "done" /\ calls[c].tried = <<>>

\* The call has got past validation.
Validated(c) == calls[c].key # NoKey

\* C25: an idempotency key given in the options is the cache key, alone: of
\* two sends with the same given key, the second made after the first has
\* delivered and within idempotencyTtl of it, the second returns the result
\* of the first (its message identifier) and calls no provider, whatever
\* its content; the fingerprint of the content is the key only of a send
\* that gives none, so a send is answered from the cache only with the
\* result of a send that gave the same key, or of a send of the same content
\* when neither gave one.
C25_ExplicitKeyAlone ==
    /\ \A c1 \in Calls : \A c2 \in Calls \ {c1} :
          (/\ Delivered(c1) /\ c1 \in calls[c2].before
           /\ Validated(c2)
           /\ calls[c1].given # NoKey
           /\ calls[c2].given = calls[c1].given
           /\ calls[c2].startedAt - calls[c1].endedAt <= idempotencyTtl) =>
              /\ FromCache(c2)
              /\ calls[c2].endedAt = calls[c2].startedAt
              /\ calls[c2].result.messageId = calls[c1].result.messageId
    /\ \A c \in Calls : Validated(c) =>
          calls[c].key = IF calls[c].given # NoKey THEN calls[c].given
                         ELSE generateIdempotencyKey(calls[c].email)
    /\ \A c2 \in Calls : FromCache(c2) =>
          \E c1 \in calls[c2].before :
              /\ Delivered(c1)
              /\ calls[c1].result.messageId = calls[c2].result.messageId
              /\ calls[c1].given = calls[c2].given
              /\ calls[c1].given = NoKey =>
                     generateIdempotencyKey(calls[c1].email) =
                         generateIdempotencyKey(calls[c2].email)

\* Two sends of different content with the same given key: the second was
\* answered with the result of the first.
C25_Witness ==
    /\ Delivered("c1") /\ FromCache("c2")
    /\ calls["c1"].given = ExplicitKey /\ calls["c2"].given = ExplicitKey
    /\ calls["c1"].email # calls["c2"].email
    /\ calls["c2"].result.messageId = calls["c1"].result.messageId

\* C26: the value sendEmail returns for a duplicate is equal in every
\* field, the completion timestamp included, to the result the original send
\* for that key returned to its caller.
C26_DuplicateEqualsOriginal ==
    \A c1 \in Calls : \A c2 \in Calls \ {c1} :
        (/\ Delivered(c1) /\ FromCache(c2)
         /\ calls[c2].key = calls[c1].key
         /\ calls[c2].result.messageId = calls[c1].result.messageId) =>
            calls[c2].result = calls[c1].result

\* The step is a sendEmail call for c with a well-formed request whose key
\* has a live record.
DuplicateStep(c) ==
    /\ StartsCall(c)
    /\ ~IsMalformed(calls'[c].email)
    /\ sentEmails[calls'[c].key] # NoRecord
    /\ Live(sentEmails[calls'[c].key], now)

\* C27: the idempotency lookup precedes the admission: a sendEmail whose
\* key has a live record returns the record and does not call the rate
\* limiter; no admission is recorded, and the call succeeds also when the
\* window of its sender is full.
C27_LookupBeforeAdmission ==
    [][ \A c \in Calls : DuplicateStep(c) =>
           /\ calls'[c].pc = "done"
           /\ calls'[c].result = sentEmails[calls'[c].key]
           /\ calls'[c].tried = <<>>
           /\ UNCHANGED rlVars ]_vars

\* A call has just been answered from the cache while the window of its
\* sender is full, by admissions made before the call.
C27_Witness ==
    \E c \in Calls :
        /\ FromCache(c)
        /\ calls[c].startedAt = now
        /\ WindowFull(IdentOf(SenderOf(calls[c].email)))
        /\ \A d \in Calls \ {c} : calls[d].pc = "idle" \/ d \in calls[c].before

\* ------------------------------------------------------ affinity: claims

\* The affinity index is an index into the provider list.
IndexValid == currentProviderIndex \in 0..(N - 1)

\* Every send that got to the providers has called them in rotation order
\* from the affinity index it started with.
TriedInRotation ==
    \A c \in Calls : \A i \in 1..Len(calls[c].tried) :
        calls[c].tried[i][1] = RotationFrom(calls[c].affinity, i)

\* A send that succeeds through provider p leaves the index at p.
SuccessSetsIndex ==
    \A c \in Calls :
        (calls[c].pc = "sending" /\ calls'[c].pc = "done") =>
            currentProviderIndex' = calls[c].actual

\* C28: the affinity index is always a valid index into the provider list;
\* each send that is admitted and not a duplicate tries the providers in the
\* order index, index + 1, ... wrapping around; after a send has succeeded
\* through provider p the index is p.
C28_RotationFromAffinity ==
    /\ [](IndexValid /\ TriedInRotation)
    /\ [][SuccessSetsIndex]_vars

\* The step ends call c with an error.
FailsCall(c) == calls[c].pc # "failed" /\ calls'[c].pc = "failed"

\* The step is a step of call c.
StepOf(c) == calls'[c] # calls[c]

\* The step is the success of a provider call.
SuccessStep == \E c \in Calls : calls[c].pc = "sending" /\ calls'[c].pc = "done"

\* C29: a sendEmail call that ends in failure (validation error, rate-limit
\* refusal or all providers failed) leaves the affinity index as it was: the
\* step that ends it does not write the index, and nor does any step of a
\* call but the success of a provider call, which no failing call has.
C29_FailureKeepsAffinity ==
    [][ /\ \A c \in Calls :
              FailsCall(c) => currentProviderIndex' = currentProviderIndex
        /\ currentProviderIndex' # currentProviderIndex => SuccessStep
        /\ \A c \in Calls :
              (StepOf(c) /\ calls'[c].pc # "done") =>
                  currentProviderIndex' = currentProviderIndex ]_vars

\* A send has succeeded through the second provider; a later send that
\* started with the index there has failed at every provider, and the index
\* is where it was.
C29_Witness ==
    \E c \in Calls : \E d \in calls[c].before :
        /\ calls[c].pc = "failed"
        /\ IsAllProvidersFailed(calls[c].error)
        /\ calls[c].affinity = 1
        /\ Delivered(d)
        /\ currentProviderIndex = 1

\* ------------------------------------------- retries and breakers: claims

\* The execute calls send c has made at the breaker of provider p.
ExecuteCalls(c, p) ==
    {i \in 1..Len(calls[c].tried) : calls[c].tried[i][1] = p}

\* Call c is the only send there has been.
OnlySend(c) ==
    /\ calls[c].pc # "idle"
    /\ \A d \in Calls \ {c} : calls[d].pc = "idle"

\* C30: within one send the retries against a provider run inside a single
\* CircuitBreaker.execute call: the send makes one execute call at the
\* breaker of a provider, and the breaker's failureCount rises by at most 1
\* per send (from 0, when the send is the only one there has been).
C30_OneOutcomePerSend ==
    \A c \in Calls : OnlySend(c) =>
        \A p \in Providers :
            /\ Cardinality(ExecuteCalls(c, p)) <= 1
            /\ circuitBreakers[p].failureCount <= 1

\* --------------------------------------------- open breakers: claims

\* The breaker of provider p is OPEN and its cooldown is not over.
Cooling(p) ==
    /\ circuitBreakers[p].state = "OPEN"
    /\ now < circuitBreakers[p].nextAttempt

\* The execute calls send c makes in this step.
NewTries(c) == (Len(calls[c].tried) + 1)..Len(calls'[c].tried)

\* A breaker that is cooling rejects the execute call: the provider's send
\* operation is not invoked.
C31_Step ==
    \A c \in Calls : \A i \in NewTries(c) :
        Cooling(calls'[c].tried[i][1]) => calls'[c].tried[i][2] = "rejected"

\* A rejection counts as a failed attempt at the provider: the send goes on
\* to its next attempt or provider, returns the result of the provider that
\* succeeds, and fails only when all attempts at all providers are used up,
\* with the last error seen.
RejectionIsFailure ==
    \A c \in Calls : calls[c].tried # <<>> =>
        LET n == Len(calls[c].tried)
            last == calls[c].tried[n]
        IN  /\ n <= N * maxRetries
            /\ calls[c].pc = "done" =>
                   /\ last[2] = "sent"
                   /\ calls[c].result.provider = ProviderName(last[1])
            /\ calls[c].pc = "failed" =>
                   /\ n = N * maxRetries
                   /\ calls[c].error = AllProvidersFailed(ErrorOf(last))

\* C31: a provider whose breaker is OPEN, its cooldown not over, is never
\* invoked by sendEmail; the rejection is treated like a failure of the
\* provider and the send moves on; when a later provider succeeds its
\* result is returned, otherwise the final error carries the last error.
C31_OpenBreakerSkipsProvider == []RejectionIsFailure /\ [][C31_Step]_vars

\* A send was rejected by the open breaker of the first provider and
\* delivered by the second; another was rejected at its last attempt and
\* failed with the breaker's error.
C31_Witness ==
    \E c \in Calls, d \in Calls :
        /\ calls[c].pc = "done"
        /\ \E i \in 1..Len(calls[c].tried) : calls[c].tried[i] = <<0, "rejected">>
        /\ calls[c].result.provider = ProviderName(1)
        /\ calls[d].pc = "failed"
        /\ calls[d].error = AllProvidersFailed(BreakerOpenError)

\* ------------------------------------------ validation and the queue: claims

\* C32: a request that fails validation is attempted at most once: a queue
\* item whose email fails validation is dispatched at most once.
C32_MalformedItemDispatchedOnce ==
    \A id \in ItemIds :
        (Exists(id) /\ validateEmail(items[id].email) # NoError) =>
            items[id].attempts <= 1

\* ------------------------------------------------ concurrency: claims

\* The items whose dispatch is in flight.
ItemsInFlight == {id \in ItemIds : items[id].status = "processing"}

\* C33: at every moment the number of queue items in status processing is
\* at most maxConcurrency, for any sequence of addEmail, startProcessing and
\* stopProcessing calls.
C33_AtMostMaxConcurrencyInFlight == Cardinality(ItemsInFlight) <= maxConcurrency

\* ------------------------------------------------ item lifecycle: claims

\* The changes of status an item can make in one step; an item that is
\* taken out of the queue and not in flight is gone ("none").
StatusChanges ==
    { <<"pending", "processing">>, <<"processing", "completed">>,
      <<"processing", "pending">>, <<"processing", "failed">> }

C34_Step ==
    \A id \in ItemIds : Exists(id) =>
        /\ items'[id].status # items[id].status =>
               \/ <<items[id].status, items'[id].status>> \in StatusChanges
               \/ ~Exists(id)'
        /\ Exists(id)' =>
               \* an attempt is counted when the item is dispatched, and then only
               /\ items'[id].attempts =
                      items[id].attempts + (IF Selected(id) THEN 1 ELSE 0)
               /\ items[id].status \in {"completed", "failed"} =>
                      items'[id] = items[id]
        /\ items[id].status = "processing" =>
               \A l \in Loops :
                   id \in loops'[l].awaiting => id \in loops[l].awaiting

\* An item in flight is awaited by one pass.
OnePassPerDispatch ==
    \A id \in ItemIds : items[id].status = "processing" =>
        Cardinality({l \in Loops : id \in loops[l].awaiting}) = 1

\* C34: the status of a queue item changes only from pending to processing
\* and from processing to completed, pending or failed; completed and
\* failed are absorbing: the item is never dispatched again and its status
\* never changes; an item in processing is not selected by another pass.
C34_StatusTransitions == []OnePassPerDispatch /\ [][C34_Step]_vars

\* An item has been dispatched, returned to pending, dispatched again and
\* completed, while another has failed for good.
C34_Witness ==
    \E id \in ItemIds, other \in ItemIds :
        /\ items[id].status = "completed" /\ items[id].attempts = 2
        /\ items[other].status = "failed"

\* --------------------------------- getRemaining, reset, window edge: claims

\* A step in which op was called for identifier i.
RlStep(op, i) ==
    /\ rlLast'.flip # rlLast.flip
    /\ rlLast'.op = op
    /\ IdentOf(rlLast'.arg) = i

\* The next n calls of isAllowed for identifier i on limiter rl, made at any
\* times from t on, all return true.
RECURSIVE NextCallsAllowed(_, _, _, _)
NextCallsAllowed(rl, i, n, t) ==
    \/ n = 0
    \/ \A at \in t..(MaxTime + window) :
           /\ isAllowed(rl, i, at).ret
           /\ NextCallsAllowed(isAllowed(rl, i, at).rl, i, n - 1, at)

C35_Step ==
    \A i \in Identifiers :
        /\ RlStep("getRemaining", i) =>
               /\ rlLast'.ret =
                      (IF limit > Len(admitted[i])
                       THEN limit - Len(admitted[i]) ELSE 0)
               /\ UNCHANGED <<requests, tokens, lastRefill>>
               /\ \A j \in Identifiers, at \in now..MaxTime :
                      isAllowed(RL, j, at) = isAllowed(RL, j, at)'
        /\ RlStep("reset", i) => NextCallsAllowed(RL', i, limit, now)

\* C35: getRemaining(identifier) returns max(0, limit - the number of
\* admissions of the identifier, since its last reset, that are still inside
\* the window) and changes no admission outcome: the limiter is the same
\* after the call, so every later isAllowed call returns what it would have
\* returned without it; reset(identifier) makes the next limit calls of
\* isAllowed for that identifier return true, whenever they are made.
C35_GetRemainingAndReset == [][C35_Step]_(rlLast.flip)

\* getRemaining has just returned 1 for an identifier whose history holds two
\* admissions, one of them out of the window and not yet pruned.
C35_Witness ==
    /\ rlLast.op = "getRemaining"
    /\ rlLast.ret = 1
    /\ Len(requests[IdentOf(rlLast.arg)]) = 2
    /\ Len(admitted[IdentOf(rlLast.arg)]) = 1

\* The recorded admissions of identifier i with a time in [now - window, now].
ClosedWindow(i) == SelectSeq(requests[i], LAMBDA time : time >= now - window)

C36_Step ==
    \A i \in Identifiers :
        /\ (RlStep("isAllowed", i) /\ Len(ClosedWindow(i)) >= limit) =>
               rlLast'.ret = FALSE
        /\ RlStep("getRemaining", i) =>
               rlLast'.ret = (IF limit > Len(ClosedWindow(i))
                              THEN limit - Len(ClosedWindow(i)) ELSE 0)

\* C36: the limiter prunes only entries strictly older than now - window: an
\* admission whose timestamp equals now - window is still counted toward
\* the limit by isAllowed and by getRemaining.
C36_BoundaryEntryCounted == [][C36_Step]_(rlLast.flip)

\* ------------------------------------------------ queue statistics: claims

\* The items in the queue that are not settled.
Unsettled ==
    {id \in Range(queue) : items[id].status \in {"pending", "processing"}}

\* C37: after any sequence of addEmail, processing passes, removeItem (of an
\* item in flight too), clear() and clear(status), stats.pending equals the
\* number of queue items whose status is pending or processing; it is never
\* negative.
C37_PendingCountsUnsettled ==
    /\ stats.pending = Cardinality(Unsettled)
    /\ stats.pending >= 0

\* ------------------------------------------- failed sends and the cache

C38_StepOriginal ==
    \A c \in Calls :
        FailsCall(c) =>
            /\ sentEmails' = sentEmails
            /\ calls'[c].found = NoRecord

\* C38 (as stated): a sendEmail call that ends in an error has left the
\* idempotency cache unchanged: neither the step that ends it nor its lookup
\* (which found no record to delete) has changed it.
C38_FailedSendLeavesCacheUnchanged == [][C38_StepOriginal]_vars

\* A step of a call that is not its success writes no record and changes
\* no live record: at most, the lookup deletes the expired record of the
\* call's key.
FailureWritesNothing ==
    \A c \in Calls :
        (StepOf(c) /\ calls'[c].pc # "done") =>
            \A k \in Keys :
                \/ sentEmails'[k] = sentEmails[k]
                \/ /\ k = calls'[c].key
                   /\ StartsCall(c)
                   /\ IsExpired(sentEmails[k])
                   /\ sentEmails'[k] = NoRecord

\* A send whose key has no live record is not answered from the cache.
FreshIsDispatched ==
    \A c \in Calls : FreshStep(c) => calls'[c].pc # "done"

\* The record under the key of a failed call, if there is one, is the
\* result of another call that delivered after the failed one had started.
RecordIsOfAnotherSend ==
    \A c \in Calls :
        (calls[c].pc = "failed" /\ Validated(c)
           /\ sentEmails[calls[c].key] # NoRecord) =>
            \E d \in Calls \ {c} :
                /\ calls[d].key = calls[c].key
                /\ calls[d].pc = "done" /\ ~FromCache(d)
                /\ calls[d].endedAt >= calls[c].startedAt
                /\ sentEmails[calls[c].key].messageId = calls[d].result.messageId

\* C38 (as amended): a sendEmail call that ends in any error writes no
\* record to the idempotency cache, for its key or any other, and leaves
\* every live record unchanged: the only change it can make is that its
\* lookup has evicted the expired record of its own key; so, unless another
\* send with that key delivers in the meantime, a later send with the same
\* fingerprint is dispatched to the providers again rather than answered
\* from the cache.
C38_FailedSendWritesNoRecord ==
    /\ []RecordIsOfAnotherSend
    /\ [][FailureWritesNothing /\ FreshIsDispatched]_vars

\* A send has failed at every provider, and a later send of the same
\* fingerprint has been dispatched to a provider.
C38_Witness ==
    \E c \in Calls, d \in Calls :
        /\ calls[c].pc = "failed" /\ calls[c].tried # <<>>
        /\ c \in calls[d].before
        /\ calls[d].key = calls[c].key
        /\ calls[d].tried # <<>>
        /\ calls[d].pc \in {"sending", "done"}

\* ------------------------------------------ admissions of sends: claims

\* The call was admitted by the rate limiter: it got past validation, was
\* not answered from the cache and was not refused.
Admitted(c) ==
    /\ calls[c].pc # "idle"
    /\ Validated(c)
    /\ ~FromCache(c)
    /\ calls[c].error # RateLimitExceeded

\* The calls of sender i admitted inside the window that ends now.
AdmittedInWindow(i) ==
    {c \in Calls : /\ Admitted(c)
                   /\ SenderOf(calls[c].email) = i
                   /\ calls[c].startedAt > now - window}

\* The window of every sender holds one timestamp for each send admitted
\* inside it, whatever has become of the send.
OneEntryPerAdmittedSend ==
    \A i \in Identifiers :
        Len(recentRequests(requests[i], now - window))
            = Cardinality(AdmittedInWindow(i))

C39_Step ==
    \A c \in Calls :
        /\ (StartsCall(c) /\ Admitted(c)') =>
               LET i == SenderOf(calls'[c].email)
               IN  requests' = [requests EXCEPT
                                   ![i] = Append(recentRequests(@, now - window),
                                                 now)]
        /\ (StepOf(c) /\ ~(StartsCall(c) /\ Admitted(c)')) =>
               requests' = requests

\* C39: every send that passes the rate-limit admission records exactly one
\* timestamp in the window of its sender, at the admission, and no later
\* step of the send, whatever its outcome, takes it back: a send that ends
\* with all providers failed is not refunded, so every further send of the
\* same request that is admitted (each retry of a failing queue item is
\* such a send) uses one further unit of the sender's capacity.
C39_AdmissionNotRefunded ==
    /\ []OneEntryPerAdmittedSend
    /\ [][C39_Step]_vars

\* Two sends of one sender have failed at every provider, one after the
\* other, and the sender's window holds their two timestamps: it is full.
C39_Witness ==
    \E c \in Calls, d \in Calls :
        /\ calls[c].pc = "failed" /\ calls[c].tried # <<>>
        /\ calls[d].pc = "failed" /\ calls[d].tried # <<>>
        /\ c \in calls[d].before
        /\ calls[d].email = calls[c].email
        /\ WindowFull(SenderOf(calls[c].email))

\* ------------------------------------------------ queue drains: claims

\* The item is in the queue and not settled for good.
Waiting(id) ==
    id \in Range(queue) /\ items[id].status \in {"pending", "processing"}

\* C40: while the processing loop runs, every dispatch settles and no more
\* items are enqueued, every item in the queue reaches status completed or
\* failed: none stays pending or processing for ever.
C40_EveryItemSettles ==
    \A id \in ItemIds : (processing /\ Waiting(id)) ~> ~Waiting(id)


=============================================================================
